---- MODULE Spec2Model ----
(***************************************************************************)
(* A model of the containers crate.                                        *)
(*                                                                         *)
(* SparseVec (src/src/sparsevec.rs): a dense unordered storage addressed   *)
(* through public indices.  The three fields of the struct are the three   *)
(* variables data, positions and free_indices; every public method is an   *)
(* operator on a store record, computed as the code computes it, and an    *)
(* action that applies it.  Rust vectors are 0-based, TLA+ sequences are    *)
(* 1-based: At and Put translate.  Option<T> is a sequence of length 0 or  *)
(* 1.  A panic ends the program: it sets panicked and no action follows.   *)
(*                                                                         *)
(* StaticVec and the VecLike trait (src/src/staticvec.rs), GenericSparseSet *)
(* over both backings (src/src/sparseset.rs) and RecyclingVec              *)
(* (src/src/recycling/recycling_vec.rs) follow the same pattern: operators *)
(* that compute what the methods compute, variables for the containers,    *)
(* and one specification for each: Spec and SpecDeep (SparseVec), SpecSet  *)
(* (a SparseSet and a StaticSparseSet given the same calls), SpecStaticVec *)
(* (a StaticVec and a Vec given the same calls), SpecRecycling.  The calls *)
(* on one container leave the others alone.                                *)
(*                                                                         *)
(* RecyclingHashMap (src/src/recycling/recycling_hash_map.rs) and          *)
(* StringMap (src/src/string_map.rs) are modelled in the same way, under   *)
(* SpecHashMap and SpecStringMap.  A HashMap is a function from the keys   *)
(* that have an entry; its drain visits them in any order.  A String is    *)
(* the sequence of its bytes, and key_idx is the bisection of the sorted   *)
(* keys.  SpecClear is a program that fills, empties and clears one of the *)
(* three containers that have a clear().  SpecPool is a program that uses  *)
(* one of the two recycling containers, and SpecNested one that uses a     *)
(* RecyclingVec whose elements are RecyclingVecs (src/src/recycling/       *)
(* clear.rs).                                                              *)
(***************************************************************************)
EXTENDS Integers, Sequences, FiniteSets, TLC

\* ---------------------------------------------------------------- bounds
\* Spec: the largest number of elements the store is filled with
MaxLen == 2
\* SpecDeep: the same, one more, where the defects of remove meet
DeepLen == 3
\* SpecSet: the capacity N of the StaticSparseSet
SetN == 2
\* SpecStaticVec: the capacity N of the StaticVec
VecN == 2
\* SpecRecycling: the number of elements the constructor is called for
RecN == 2
\* SpecRecycling: the largest number of items a constructor or a caller puts
\* into an element
ElemLen == 1
\* SpecHashMap: the number of keys callers pass to the RecyclingHashMap
KeyN == 2
\* SpecNested: the number of inner vectors the outer vector constructs, and
\* the number of children an inner vector constructs
OuterN == 2
InnerN == 1
\* the element values are 1..MaxVal
MaxVal == 2

Values == 1..MaxVal

\* ------------------------------------------------------- language helpers
\* Option::None and Option::Some
None == <<>>
Some(x) == <<x>>
is_some(o) == o # None
unwrap(o) == o[1]

\* v[i] and v[i] = x of a Vec (0-based)
At(v, i) == v[i + 1]
Put(v, i, x) == [v EXCEPT ![i + 1] = x]

\* Vec::pop on a non-empty vector: the vector that is left
vec_pop(v) == SubSeq(v, 1, Len(v) - 1)
\* Vec::last on a non-empty vector
vec_last(v) == v[Len(v)]
\* Vec::swap_remove(i) for i < len: the last element takes the place of the
\* i-th, and the vector is one shorter
vec_swap_remove(v, i) == vec_pop(Put(v, i, vec_last(v)))
\* <[T]>::get
vec_get(v, i) == IF i < Len(v) THEN Some(At(v, i)) ELSE None

\* ---------------------------------------------------------------- SparseVec
\* the sentinel of positions: usize::MAX, no position of a vector; here the
\* largest integer of the model checker
EMPTY_INDEX == 2147483647

\* SparseVec { data, positions, free_indices }
SparseVec(d, p, f) == [data |-> d, positions |-> p, free_indices |-> f]

\* SparseVec::default / new
default == SparseVec(<<>>, <<>>, <<>>)

len(s) == Len(s.data)

is_empty(s) == Len(s.data) = 0

\* the position in data of the element at index n, if any
position(s, n) ==
    IF n < Len(s.positions)
    THEN IF At(s.positions, n) # EMPTY_INDEX
         THEN Some(At(s.positions, n))
         ELSE None
    ELSE None

contains(s, n) == is_some(position(s, n))

get(s, n) ==
    IF position(s, n) = None
    THEN None
    ELSE vec_get(s.data, unwrap(position(s, n)))

\* get_mut yields a reference to the element get yields
get_mut(s, n) ==
    IF position(s, n) = None
    THEN None
    ELSE vec_get(s.data, unwrap(position(s, n)))

\* *get_mut(n).unwrap() = value: the store after the write
write(s, n, value) ==
    [s EXCEPT !.data = Put(s.data, unwrap(position(s, n)), value)]

\* insert: the store after the call, and the index returned
insert(s, value) ==
    LET pos == Len(s.data)
    IN  IF s.free_indices = <<>>
        THEN [s   |-> SparseVec(Append(s.data, value),
                                Append(s.positions, pos),
                                s.free_indices),
              ret |-> Len(s.positions)]
        ELSE LET i == vec_last(s.free_indices)
             IN  [s   |-> SparseVec(Append(s.data, value),
                                    Put(s.positions, i, pos),
                                    vec_pop(s.free_indices)),
                  ret |-> i]

\* remove, once n has a position: the store after the call, the Option
\* returned, and whether the call panicked (swap_remove and indexing panic
\* out of bounds)
remove_at(s, n, pos) ==
    IF pos = Len(s.data) - 1
    THEN [s     |-> SparseVec(vec_pop(s.data),
                              s.positions,
                              Append(s.free_indices, n)),
          ret   |-> Some(vec_last(s.data)),
          panic |-> FALSE]
    ELSE IF pos >= Len(s.data)
    THEN \* swap_remove index out of bounds
         [s |-> s, ret |-> None, panic |-> TRUE]
    ELSE LET d == vec_swap_remove(s.data, pos)
         IN  IF Len(d) >= Len(s.positions)
             THEN \* positions[data.len()] out of bounds
                  [s |-> [s EXCEPT !.data = d], ret |-> None, panic |-> TRUE]
             ELSE [s     |-> SparseVec(
                               d,
                               Put(Put(s.positions, Len(d), At(s.positions, n)),
                                   n, EMPTY_INDEX),
                               Append(s.free_indices, n)),
                   ret   |-> Some(At(s.data, pos)),
                   panic |-> FALSE]

\* a remove that frees n before it has looked n up
remove_frees_first(s, n) ==
    IF is_empty(s) \/ position(s, n) = None
    THEN [s     |-> [s EXCEPT !.free_indices = Append(s.free_indices, n)],
          ret   |-> None,
          panic |-> FALSE]
    ELSE remove_at(s, n, unwrap(position(s, n)))

\* remove
remove(s, n) ==
    IF is_empty(s)
    THEN [s |-> s, ret |-> None, panic |-> FALSE]
    ELSE IF position(s, n) = None
    THEN [s |-> s, ret |-> None, panic |-> FALSE]
    ELSE remove_at(s, n, unwrap(position(s, n)))

\* a clear that leaves the free indices in place
clear_keeps_free_indices(s) == SparseVec(<<>>, <<>>, s.free_indices)

\* clear: data.clear(); positions.clear(); free_indices.clear()
clear(s) == SparseVec(<<>>, <<>>, <<>>)

\* keys: the indices whose entry of positions is no sentinel, in index order
keys(s) ==
    SelectSeq([k \in 1..Len(s.positions) |-> k - 1],
              LAMBDA n : At(s.positions, n) # EMPTY_INDEX)

\* items: keys().filter_map(|n| Some((n, self.get(n)?)))
items(s) ==
    LET ks   == keys(s)
        kept == SelectSeq(ks, LAMBDA n : get(s, n) # None)
    IN  [k \in 1..Len(kept) |-> <<kept[k], unwrap(get(s, kept[k]))>>]

\* values and values_mut: data.iter() and data.iter_mut()
values(s) == s.data

\* values_mut with *x = f[*x] for every element yielded
values_mut(s, f) ==
    [s EXCEPT !.data = [k \in 1..Len(s.data) |-> f[s.data[k]]]]

\* Index::index: get(n).unwrap()
index(s, n) ==
    IF get(s, n) = None
    THEN [ret |-> None, panic |-> TRUE]
    ELSE [ret |-> get(s, n), panic |-> FALSE]

\* IndexMut::index_mut followed by the assignment: get_mut(n).unwrap()
index_mut(s, n, value) ==
    IF get_mut(s, n) = None
    THEN [s |-> s, panic |-> TRUE]
    ELSE [s |-> write(s, n, value), panic |-> FALSE]

\* ---------------------------------------------------------------- StaticVec
\* StaticVec { arr, len }: arr always has N slots, the first len are in use
StaticVec(a, l) == [arr |-> a, len |-> l]

\* StaticVec::new: every slot holds T::default(), here d
sv_new(N, d) == StaticVec([i \in 1..N |-> d], 0)

\* a push that writes the last slot again when the array is full
sv_push_overwrites(c, val) ==
    IF c.len < Len(c.arr)
    THEN [c |-> StaticVec(Put(c.arr, c.len, val), c.len + 1), panic |-> FALSE]
    ELSE [c |-> StaticVec(Put(c.arr, c.len - 1, val), c.len), panic |-> FALSE]

\* StaticVec::push: arr[len] = val panics when len = N, before len moves
sv_push(c, val) ==
    IF c.len < Len(c.arr)
    THEN [c |-> StaticVec(Put(c.arr, c.len, val), c.len + 1), panic |-> FALSE]
    ELSE [c |-> c, panic |-> TRUE]

\* a pop that hands out the first element in place of the last
sv_pop_first(c, d) ==
    IF c.len = 0
    THEN [c |-> c, ret |-> None]
    ELSE [c |-> StaticVec(Put(c.arr, c.len - 1, d), c.len - 1),
          ret |-> Some(At(c.arr, 0))]

\* StaticVec::pop: the slot given up takes T::default(), here d
sv_pop(c, d) ==
    IF c.len = 0
    THEN [c |-> c, ret |-> None]
    ELSE [c |-> StaticVec(Put(c.arr, c.len - 1, d), c.len - 1),
          ret |-> Some(At(c.arr, c.len - 1))]

sv_len(c) == c.len

\* StaticVec::swap_remove: arr.swap(len - 1, n), then pop().unwrap().  With
\* len = 0 the subtraction overflows (a panic with overflow checks, and an
\* index of usize::MAX that arr.swap refuses without them); n is checked
\* against N only, never against len
sv_swap_remove(c, n, d) ==
    IF c.len = 0 \/ n >= Len(c.arr)
    THEN [c |-> c, ret |-> None, panic |-> TRUE]
    ELSE LET swapped == StaticVec(Put(Put(c.arr, c.len - 1, At(c.arr, n)),
                                      n, At(c.arr, c.len - 1)),
                                  c.len)
             r       == sv_pop(swapped, d)
         IN  [c |-> r.c, ret |-> r.ret, panic |-> FALSE]

\* StaticVec::iter: arr[..len]
sv_iter(c) == SubSeq(c.arr, 1, c.len)

\* StaticVec::get and get_mut: arr.get(n), whatever len is
sv_get(c, n) == IF n < Len(c.arr) THEN Some(At(c.arr, n)) ELSE None

\* Index for StaticVec: &arr[n], whatever len is
sv_index(c, n) ==
    IF n < Len(c.arr)
    THEN [ret |-> Some(At(c.arr, n)), panic |-> FALSE]
    ELSE [ret |-> None, panic |-> TRUE]

\* IndexMut for StaticVec followed by the assignment: arr[n] = val
sv_index_mut(c, n, val) ==
    IF n < Len(c.arr)
    THEN [c |-> StaticVec(Put(c.arr, n, val), c.len), panic |-> FALSE]
    ELSE [c |-> c, panic |-> TRUE]

\* ------------------------------------------------------------------ VecLike
\* a Vec<T> as a VecLike value
Vec(v) == [vec |-> v]

\* the two implementations of VecLike: Vec<T> and StaticVec<T, N>
IsStatic(c) == "arr" \in DOMAIN c

\* the container markers: which implementation the three fields of a
\* GenericSparseSet take
DynamicContainerMarker == [static |-> FALSE, N |-> 0]
StaticContainerMarker(N) == [static |-> TRUE, N |-> N]

\* VecLike::new
vl_new(marker, d) == IF marker.static THEN sv_new(marker.N, d) ELSE Vec(<<>>)

\* VecLike::push
vl_push(c, val) ==
    IF IsStatic(c)
    THEN sv_push(c, val)
    ELSE [c |-> Vec(Append(c.vec, val)), panic |-> FALSE]

\* VecLike::pop
vl_pop(c, d) ==
    IF IsStatic(c)
    THEN sv_pop(c, d)
    ELSE IF c.vec = <<>>
         THEN [c |-> c, ret |-> None]
         ELSE [c |-> Vec(vec_pop(c.vec)), ret |-> Some(vec_last(c.vec))]

\* VecLike::len
vl_len(c) == IF IsStatic(c) THEN sv_len(c) ELSE Len(c.vec)

\* VecLike::swap_remove: Vec::swap_remove panics for n >= len
vl_swap_remove(c, n, d) ==
    IF IsStatic(c)
    THEN sv_swap_remove(c, n, d)
    ELSE IF n < Len(c.vec)
         THEN [c |-> Vec(vec_swap_remove(c.vec, n)),
               ret |-> Some(At(c.vec, n)), panic |-> FALSE]
         ELSE [c |-> c, ret |-> None, panic |-> TRUE]

\* VecLike::iter
vl_iter(c) == IF IsStatic(c) THEN sv_iter(c) ELSE c.vec

\* VecLike::get and get_mut
vl_get(c, n) == IF IsStatic(c) THEN sv_get(c, n) ELSE vec_get(c.vec, n)

\* Index<usize>: c[n]
vl_index(c, n) ==
    IF IsStatic(c)
    THEN sv_index(c, n)
    ELSE IF n < Len(c.vec)
         THEN [ret |-> Some(At(c.vec, n)), panic |-> FALSE]
         ELSE [ret |-> None, panic |-> TRUE]

\* IndexMut<usize> followed by the assignment: c[n] = val
vl_index_mut(c, n, val) ==
    IF IsStatic(c)
    THEN sv_index_mut(c, n, val)
    ELSE IF n < Len(c.vec)
         THEN [c |-> Vec(Put(c.vec, n, val)), panic |-> FALSE]
         ELSE [c |-> c, panic |-> TRUE]

\* ----------------------------------------------------------- GenericSparseSet
\* (usize, T)::default() for T = usize: what a StaticVec slot of data holds
\* when it is not in use
PairDefault == <<0, 0>>

\* GenericSparseSet { data, positions, free_indices }: data holds (index,
\* value) pairs, positions holds Option<usize>
GenericSparseSet(d, p, f) == [data |-> d, positions |-> p, free_indices |-> f]

\* GenericSparseSet::new
set_new(marker) ==
    GenericSparseSet(vl_new(marker, PairDefault), vl_new(marker, None),
                     vl_new(marker, 0))

\* GenericSparseSet::position: positions.get(n).copied().flatten()
set_position(s, n) ==
    IF vl_get(s.positions, n) = None
    THEN None
    ELSE unwrap(vl_get(s.positions, n))

set_len(s) == vl_len(s.data)

set_contains(s, n) == is_some(set_position(s, n))

\* GenericSparseSet::get: Some(&data.get(position(n)?)?.1)
set_get(s, n) ==
    IF set_position(s, n) = None
    THEN None
    ELSE IF vl_get(s.data, unwrap(set_position(s, n))) = None
         THEN None
         ELSE Some(unwrap(vl_get(s.data, unwrap(set_position(s, n))))[2])

\* GenericSparseSet::get_mut hands out the slot get reads
set_get_mut(s, n) == set_get(s, n)

\* *get_mut(n).unwrap() = value
set_write(s, n, value) ==
    LET pos == unwrap(set_position(s, n))
        old == unwrap(vl_get(s.data, pos))
    IN  GenericSparseSet(vl_index_mut(s.data, pos, <<old[1], value>>).c,
                         s.positions, s.free_indices)

\* GenericSparseSet::insert: the index returned, and the store as the call
\* leaves it, also when one of its steps panics
set_insert(s, value) ==
    LET popped == vl_pop(s.free_indices, 0)
    IN  IF popped.ret = None
        THEN LET pushed == vl_push(s.positions, Some(vl_len(s.data)))
                 issued == vl_len(pushed.c) - 1
                 stored == vl_push(s.data, <<issued, value>>)
             IN  IF pushed.panic
                 THEN [s |-> s, ret |-> None, panic |-> TRUE]
                 ELSE IF stored.panic
                      THEN [s |-> GenericSparseSet(s.data, pushed.c, popped.c),
                            ret |-> None, panic |-> TRUE]
                      ELSE [s |-> GenericSparseSet(stored.c, pushed.c, popped.c),
                            ret |-> Some(issued), panic |-> FALSE]
        ELSE LET issued == unwrap(popped.ret)
                 placed == vl_index_mut(s.positions, issued, Some(vl_len(s.data)))
                 stored == vl_push(s.data, <<issued, value>>)
             IN  IF placed.panic
                 THEN [s |-> GenericSparseSet(s.data, s.positions, popped.c),
                       ret |-> None, panic |-> TRUE]
                 ELSE IF stored.panic
                      THEN [s |-> GenericSparseSet(s.data, placed.c, popped.c),
                            ret |-> None, panic |-> TRUE]
                      ELSE [s |-> GenericSparseSet(stored.c, placed.c, popped.c),
                            ret |-> Some(issued), panic |-> FALSE]

\* the steps of remove once position(n) is known: data.swap_remove(position);
\* idx = data[position].0; positions[idx] = Some(position); positions[n] =
\* None; free_indices.push(n).  A step that panics leaves what the steps
\* before it have written
set_remove_at(s, n, pos) ==
    LET taken == vl_swap_remove(s.data, pos, PairDefault)
        moved == vl_index(taken.c, pos)
        idx   == unwrap(moved.ret)[1]
        fixed == vl_index_mut(s.positions, idx, Some(pos))
        unset == vl_index_mut(fixed.c, n, None)
        parked == vl_push(s.free_indices, n)
    IN  IF taken.panic
        THEN [s |-> s, ret |-> None, panic |-> TRUE]
        ELSE IF moved.panic
        THEN [s |-> GenericSparseSet(taken.c, s.positions, s.free_indices),
              ret |-> None, panic |-> TRUE]
        ELSE IF fixed.panic
        THEN [s |-> GenericSparseSet(taken.c, s.positions, s.free_indices),
              ret |-> None, panic |-> TRUE]
        ELSE IF unset.panic
        THEN [s |-> GenericSparseSet(taken.c, fixed.c, s.free_indices),
              ret |-> None, panic |-> TRUE]
        ELSE IF parked.panic
        THEN [s |-> GenericSparseSet(taken.c, unset.c, s.free_indices),
              ret |-> None, panic |-> TRUE]
        ELSE [s |-> GenericSparseSet(taken.c, unset.c, parked.c),
              ret |-> Some(TRUE), panic |-> FALSE]

\* GenericSparseSet::remove
set_remove(s, n) ==
    IF set_position(s, n) = None
    THEN [s |-> s, ret |-> Some(FALSE), panic |-> FALSE]
    ELSE set_remove_at(s, n, unwrap(set_position(s, n)))

\* GenericSparseSet::items, keys and values: data in storage order
set_items(s) == vl_iter(s.data)
set_keys(s) == [i \in 1..Len(vl_iter(s.data)) |-> vl_iter(s.data)[i][1]]
set_values(s) == [i \in 1..Len(vl_iter(s.data)) |-> vl_iter(s.data)[i][2]]

\* Index for GenericSparseSet: get(n).unwrap()
set_index(s, n) ==
    [ret |-> set_get(s, n), panic |-> set_get(s, n) = None]

\* --------------------------------------------------------------- RecyclingVec
\* the elements are growable arrays, Vec<usize>: id names the allocation,
\* len and capacity are those of the vector.  The items themselves are not
\* kept
Element(id, l, c) == [id |-> id, len |-> l, capacity |-> c]

\* a clear that gives the allocation up
el_clear_frees(el) == Element(el.id, 0, 0)

\* Clear for Vec: Vec::clear, which keeps the allocation
el_clear(el) == Element(el.id, 0, el.capacity)

\* Vec::push on an element: a full vector grows to twice its capacity, and
\* to no less than four items
el_push(el) ==
    IF el.len < el.capacity
    THEN Element(el.id, el.len + 1, el.capacity)
    ELSE Element(el.id, el.len + 1,
                 IF 2 * el.capacity > 4 THEN 2 * el.capacity ELSE 4)

\* the constructors callers pass: || vec![0; k], and Default::default for
\* k = 0; the allocation is as large as the vector
Construct(k, id) == Element(id, k, k)

\* the initializers callers pass: |_| {} and |el| el.push(0)
Inits == {"nothing", "push"}
Initialize(init, el) == IF init = "push" THEN el_push(el) ELSE el

\* RecyclingVec { vec, dead }
RecyclingVec(v, d) == [vec |-> v, dead |-> d]

\* RecyclingVec::default
rv_default == RecyclingVec(<<>>, <<>>)

\* the elements a RecyclingVec owns: the live ones and the pooled ones
RvOwned(s) == Len(s.vec) + Len(s.dead)

\* a push that constructs whatever the dead pool holds
rv_push_constructs(s, ctor, init, id) ==
    [s |-> RecyclingVec(Append(s.vec, Construct(ctor, id)), s.dead),
     ctor_called |-> TRUE, init_called |-> FALSE]

\* RecyclingVec::push: the vector it leaves, and which of ctor and init it
\* has called; id names the allocation ctor makes if it is called
rv_push(s, ctor, init, id) ==
    IF s.dead # <<>>
    THEN [s |-> RecyclingVec(Append(s.vec, Initialize(init, vec_last(s.dead))),
                             vec_pop(s.dead)),
          ctor_called |-> FALSE, init_called |-> TRUE]
    ELSE [s |-> RecyclingVec(Append(s.vec, Construct(ctor, id)), s.dead),
          ctor_called |-> TRUE, init_called |-> FALSE]

\* RecyclingVec::push_default: push(Default::default, |_| {})
rv_push_default(s, id) == rv_push(s, 0, "nothing", id)

\* a push_recycled that hands the pooled element out as it is
rv_push_recycled_as_is(s, init) ==
    IF s.dead = <<>>
    THEN [s |-> s, ret |-> None, init_called |-> FALSE]
    ELSE [s |-> RecyclingVec(Append(s.vec, vec_last(s.dead)), vec_pop(s.dead)),
          ret |-> Some(Len(s.vec)), init_called |-> FALSE]

\* RecyclingVec::push_recycled: returns the position of the element it has
\* appended, if any
rv_push_recycled(s, init) ==
    IF s.dead = <<>>
    THEN [s |-> s, ret |-> None, init_called |-> FALSE]
    ELSE [s |-> RecyclingVec(Append(s.vec, Initialize(init, vec_last(s.dead))),
                             vec_pop(s.dead)),
          ret |-> Some(Len(s.vec)), init_called |-> TRUE]

\* a pop that parks the element as it is
rv_pop_without_clear(s) ==
    IF s.vec = <<>>
    THEN [s |-> s, cleared |-> <<>>]
    ELSE [s |-> RecyclingVec(vec_pop(s.vec), Append(s.dead, vec_last(s.vec))),
          cleared |-> <<>>]

\* RecyclingVec::pop: the vector it leaves, and the elements clear() was
\* called on
rv_pop(s) ==
    IF s.vec = <<>>
    THEN [s |-> s, cleared |-> <<>>]
    ELSE [s |-> RecyclingVec(vec_pop(s.vec),
                             Append(s.dead, el_clear(vec_last(s.vec)))),
          cleared |-> <<vec_last(s.vec).id>>]

\* <[T]>::swap(i, j), through DerefMut
rv_swap(s, i, j) ==
    RecyclingVec(Put(Put(s.vec, i, At(s.vec, j)), j, At(s.vec, i)), s.dead)

\* a swap_remove that releases the element, as Vec::swap_remove does when
\* its result is dropped
rv_swap_remove_drops(s, i) ==
    IF i < Len(s.vec)
    THEN [s |-> RecyclingVec(vec_swap_remove(s.vec, i), s.dead),
          cleared |-> <<>>, panic |-> FALSE]
    ELSE [s |-> s, cleared |-> <<>>, panic |-> TRUE]

\* a swap_remove that pops whatever element is last
rv_swap_remove_last(s, i) ==
    IF i < Len(s.vec)
    THEN [s |-> rv_pop(s).s, cleared |-> rv_pop(s).cleared, panic |-> FALSE]
    ELSE [s |-> s, cleared |-> <<>>, panic |-> TRUE]

\* RecyclingVec::swap_remove: assert!(i < len), swap(i, len - 1), pop()
rv_swap_remove(s, i) ==
    IF i < Len(s.vec)
    THEN [s |-> rv_pop(rv_swap(s, i, Len(s.vec) - 1)).s,
          cleared |-> rv_pop(rv_swap(s, i, Len(s.vec) - 1)).cleared,
          panic |-> FALSE]
    ELSE [s |-> s, cleared |-> <<>>, panic |-> TRUE]

\* a clear that gives up the dead pool as well
rv_clear_frees_pool(s) ==
    [s |-> RecyclingVec(<<>>, <<>>),
     cleared |-> [k \in 1..Len(s.vec) |-> s.vec[k].id]]

\* a clear that drops the live elements, as Vec::clear does
rv_clear_drops(s) == [s |-> RecyclingVec(<<>>, s.dead), cleared |-> <<>>]

\* RecyclingVec::clear: dead.extend(vec.drain(..).map(clear))
rv_clear(s) ==
    [s |-> RecyclingVec(<<>>, s.dead \o [k \in 1..Len(s.vec) |->
                                             el_clear(s.vec[k])]),
     cleared |-> [k \in 1..Len(s.vec) |-> s.vec[k].id]]

\* a clone that copies the dead pool too, as a derived Clone would
rv_clone_derived(s) ==
    RecyclingVec([k \in 1..Len(s.vec) |->
                      Element(0, s.vec[k].len, s.vec[k].len)],
                 [k \in 1..Len(s.dead) |->
                      Element(0, s.dead[k].len, s.dead[k].len)])

\* Clone for RecyclingVec: the live elements cloned, an empty dead pool.  A
\* cloned Vec is a new allocation (id 0) of the size of its contents
rv_clone(s) ==
    RecyclingVec([k \in 1..Len(s.vec) |->
                      Element(0, s.vec[k].len, s.vec[k].len)], <<>>)

\* ----------------------------------------------------- nested recycling
\* a RecyclingVec<RecyclingVec<Vec<usize>>>: the elements of the outer
\* vector are RecyclingVecs, whose elements (the children) are Vec<usize>

\* a Clear for RecyclingVec that leaves the vector as it is
rvv_element_keep(el) == el

\* Clear for RecyclingVec<T: Clear>: self.clear(), RecyclingVec::clear
rvv_element_clear(el) == rv_clear(el).s

\* the initializers callers pass to the outer vector: |_| {} and
\* |el| { el.push(|| vec![0], |_| {}); }
rvv_initialize(init, el) ==
    IF init = "push" THEN rv_push(el, 1, "nothing", 0).s ELSE el

\* RecyclingVec::push(Default::default, init) on the outer vector
rvv_push(s, init) ==
    IF s.dead # <<>>
    THEN RecyclingVec(Append(s.vec, rvv_initialize(init, vec_last(s.dead))),
                      vec_pop(s.dead))
    ELSE RecyclingVec(Append(s.vec, rv_default), s.dead)

\* RecyclingVec::pop on the outer vector: el.clear() is the Clear of the
\* inner RecyclingVec
rvv_pop(s) ==
    IF s.vec = <<>> THEN s
    ELSE RecyclingVec(vec_pop(s.vec),
                      Append(s.dead, rvv_element_clear(vec_last(s.vec))))

\* RecyclingVec::swap_remove on the outer vector
rvv_swap_remove(s, i) ==
    IF i < Len(s.vec)
    THEN [s |-> rvv_pop(rv_swap(s, i, Len(s.vec) - 1)), panic |-> FALSE]
    ELSE [s |-> s, panic |-> TRUE]

\* RecyclingVec::clear on the outer vector
rvv_clear(s) ==
    RecyclingVec(<<>>, s.dead \o [k \in 1..Len(s.vec) |->
                                      rvv_element_clear(s.vec[k])])

\* ---------------------------------------------------------- RecyclingHashMap
\* RecyclingHashMap { map, dead }: map is a function from the keys that have
\* an entry to their values, dead a vector of values.  The values are
\* Vec<usize>, as the elements of the RecyclingVec are, told apart by their
\* length and their capacity only (id 0)
RecyclingHashMap(m, d) == [map |-> m, dead |-> d]

\* HashMap::new: no key has an entry
NoEntry == [k \in {} |-> Element(0, 0, 0)]

\* RecyclingHashMap::default
hm_default == RecyclingHashMap(NoEntry, <<>>)

\* HashMap::len, through Deref
hm_len(s) == Cardinality(DOMAIN s.map)

\* the values a RecyclingHashMap owns: the live ones and the pooled ones
HmOwned(s) == hm_len(s) + Len(s.dead)

\* HashMap::contains_key, through Deref
hm_contains_key(s, key) == key \in DOMAIN s.map

\* HashMap::get, through Deref
hm_get(s, key) == IF key \in DOMAIN s.map THEN Some(s.map[key]) ELSE None

\* HashMap::insert and VacantEntry::insert; HashMap::remove
map_insert(m, key, val) ==
    [k \in DOMAIN m \cup {key} |-> IF k = key THEN val ELSE m[k]]
map_remove(m, key) == [k \in DOMAIN m \ {key} |-> m[k]]

\* an insert that resets the value of a key that has one after init, not
\* before it
hm_insert_inits_before_clear(s, key, ctor, init) ==
    IF key \in DOMAIN s.map
    THEN LET val == el_clear(Initialize(init, s.map[key]))
         IN  [s |-> RecyclingHashMap(map_insert(s.map, key, val), s.dead),
              ret |-> val, ctor_called |-> FALSE, init_called |-> TRUE,
              cleared |-> <<s.map[key]>>]
    ELSE IF s.dead # <<>>
    THEN LET el == Initialize(init, vec_last(s.dead))
         IN  [s |-> RecyclingHashMap(map_insert(s.map, key, el),
                                     vec_pop(s.dead)),
              ret |-> el, ctor_called |-> FALSE, init_called |-> TRUE,
              cleared |-> <<>>]
    ELSE [s |-> RecyclingHashMap(map_insert(s.map, key, Construct(ctor, 0)),
                                 s.dead),
          ret |-> Construct(ctor, 0), ctor_called |-> TRUE,
          init_called |-> FALSE, cleared |-> <<>>]

\* an insert that overwrites the value of a key that has one, as
\* HashMap::insert does, and constructs for a key that has none
hm_insert_overwrites(s, key, ctor, init) ==
    [s |-> RecyclingHashMap(map_insert(s.map, key, Construct(ctor, 0)),
                            s.dead),
     ret |-> Construct(ctor, 0), ctor_called |-> TRUE,
     init_called |-> FALSE, cleared |-> <<>>]

\* RecyclingHashMap::insert: the map it leaves, the value it returns a
\* reference to, which of ctor and init it has called, and the values it
\* has called clear() on, as they were
hm_insert(s, key, ctor, init) ==
    IF key \in DOMAIN s.map
    THEN LET val == Initialize(init, el_clear(s.map[key]))
         IN  [s |-> RecyclingHashMap(map_insert(s.map, key, val), s.dead),
              ret |-> val, ctor_called |-> FALSE, init_called |-> TRUE,
              cleared |-> <<s.map[key]>>]
    ELSE IF s.dead # <<>>
    THEN LET el == Initialize(init, vec_last(s.dead))
         IN  [s |-> RecyclingHashMap(map_insert(s.map, key, el),
                                     vec_pop(s.dead)),
              ret |-> el, ctor_called |-> FALSE, init_called |-> TRUE,
              cleared |-> <<>>]
    ELSE [s |-> RecyclingHashMap(map_insert(s.map, key, Construct(ctor, 0)),
                                 s.dead),
          ret |-> Construct(ctor, 0), ctor_called |-> TRUE,
          init_called |-> FALSE, cleared |-> <<>>]

\* an insert_default that calls the default constructor whatever the map
\* and the pool hold
hm_insert_default_constructs(s, key) ==
    hm_insert_overwrites(s, key, 0, "nothing")

\* RecyclingHashMap::insert_default: insert(key, Default::default, |_| {})
hm_insert_default(s, key) == hm_insert(s, key, 0, "nothing")

\* a remove that parks the value as it is, without clear()
hm_remove_parks_as_is(s, key) ==
    IF key \in DOMAIN s.map
    THEN [s |-> RecyclingHashMap(map_remove(s.map, key),
                                 Append(s.dead, s.map[key])),
          cleared |-> <<>>]
    ELSE [s |-> s, cleared |-> <<>>]

\* a remove that drops the value, as HashMap::remove does
hm_remove_drops(s, key) ==
    [s |-> RecyclingHashMap(map_remove(s.map, key), s.dead),
     cleared |-> <<>>]

\* RecyclingHashMap::remove: the map it leaves, and the values it has
\* called clear() on
hm_remove(s, key) ==
    IF key \in DOMAIN s.map
    THEN [s |-> RecyclingHashMap(map_remove(s.map, key),
                                 Append(s.dead, el_clear(s.map[key]))),
          cleared |-> <<s.map[key]>>]
    ELSE [s |-> s, cleared |-> <<>>]

\* the orders HashMap::drain can visit the keys of m in: any
Orders(m) ==
    {q \in [1..Cardinality(DOMAIN m) -> DOMAIN m] :
        \A i, j \in 1..Cardinality(DOMAIN m) : q[i] = q[j] => i = j}

\* a clear that drops the values, as HashMap::clear does
hm_clear_drops(s, order) ==
    [s |-> RecyclingHashMap(NoEntry, s.dead), cleared |-> <<>>]

\* RecyclingHashMap::clear: for (_, v) in map.drain() { v.clear();
\* dead.push(v) }, the drain visiting the keys in the given order
hm_clear(s, order) ==
    [s |-> RecyclingHashMap(NoEntry,
                            s.dead \o [k \in 1..Len(order) |->
                                           el_clear(s.map[order[k]])]),
     cleared |-> [k \in 1..Len(order) |-> s.map[order[k]]]]

\* RecyclingHashMap::entry: Entry::Occupied or Entry::Vacant for the key;
\* the map is borrowed, not changed
hm_entry(s, key) ==
    [tag |-> IF key \in DOMAIN s.map THEN "Occupied" ELSE "Vacant",
     key |-> key]

\* an or_insert that resets the value of an occupied entry, as insert does
entry_or_insert_resets(s, entry, ctor, init) ==
    hm_insert(s, entry.key, ctor, init)

\* Entry::or_insert on the entry of a map s
entry_or_insert(s, entry, ctor, init) ==
    IF entry.tag = "Occupied"
    THEN [s |-> s, ret |-> s.map[entry.key], ctor_called |-> FALSE,
          init_called |-> FALSE, cleared |-> <<>>]
    ELSE IF s.dead # <<>>
    THEN LET el == Initialize(init, vec_last(s.dead))
         IN  [s |-> RecyclingHashMap(map_insert(s.map, entry.key, el),
                                     vec_pop(s.dead)),
              ret |-> el, ctor_called |-> FALSE, init_called |-> TRUE,
              cleared |-> <<>>]
    ELSE [s |-> RecyclingHashMap(map_insert(s.map, entry.key,
                                            Construct(ctor, 0)), s.dead),
          ret |-> Construct(ctor, 0), ctor_called |-> TRUE,
          init_called |-> FALSE, cleared |-> <<>>]

\* Entry::or_insert_default: or_insert(Default::default, |_| {})
entry_or_insert_default(s, entry) ==
    entry_or_insert(s, entry, 0, "nothing")

\* Entry::and_modify with |v| v.push(0): the value of an occupied entry is
\* modified, a vacant entry is left vacant
entry_and_modify(s, entry) ==
    IF entry.tag = "Occupied"
    THEN RecyclingHashMap(map_insert(s.map, entry.key,
                                     el_push(s.map[entry.key])), s.dead)
    ELSE s

\* ----------------------------------------------------------------- StringMap
\* a String is the sequence of its bytes.  Ord for str: the bytes compared
\* lexicographically, a proper prefix being less
RECURSIVE str_cmp(_, _)
str_cmp(a, b) ==
    IF a = <<>> /\ b = <<>> THEN "Equal"
    ELSE IF a = <<>> THEN "Less"
    ELSE IF b = <<>> THEN "Greater"
    ELSE IF Head(a) < Head(b) THEN "Less"
    ELSE IF Head(a) > Head(b) THEN "Greater"
    ELSE str_cmp(Tail(a), Tail(b))

\* Result<usize, usize>
Ok(n) == [ok |-> TRUE, n |-> n]
Err(n) == [ok |-> FALSE, n |-> n]

\* the loop of <[T]>::binary_search_by: the slice from base, of the given
\* size, is halved until one element is left, which is compared
RECURSIVE bisect(_, _, _, _)
bisect(ks, s, base, size) ==
    IF size > 1
    THEN LET half == size \div 2
             mid == base + half
         IN  bisect(ks, s,
                    IF str_cmp(At(ks, mid), s) = "Greater" THEN base ELSE mid,
                    size - half)
    ELSE IF str_cmp(At(ks, base), s) = "Equal" THEN Ok(base)
    ELSE IF str_cmp(At(ks, base), s) = "Less" THEN Err(base + 1)
    ELSE Err(base)

\* StringMap { keys, values }
StringMap(k, v) == [keys |-> k, values |-> v]

\* StringMap::default and new
sm_default == StringMap(<<>>, <<>>)

\* StringMap::keys, values and len
sm_keys(s) == s.keys
sm_values(s) == s.values
sm_len(s) == Len(s.keys)

\* StringMap::key_idx: keys.binary_search_by(|string| string.cmp(s))
key_idx(s, key) ==
    IF Len(s.keys) = 0 THEN Err(0) ELSE bisect(s.keys, key, 0, Len(s.keys))

\* StringMap::contains_key
sm_contains_key(s, key) == key_idx(s, key).ok

\* Vec::insert(n, x) and Vec::remove(n), for n within the vector
vec_insert(q, n, x) == SubSeq(q, 1, n) \o <<x>> \o SubSeq(q, n + 1, Len(q))
vec_remove(q, n) == SubSeq(q, 1, n) \o SubSeq(q, n + 2, Len(q))

\* an insert that puts a new key last, whatever the keys before it
sm_insert_last(s, key, value) ==
    IF key_idx(s, key).ok
    THEN [s |-> StringMap(Put(s.keys, key_idx(s, key).n, key),
                          Put(s.values, key_idx(s, key).n, value)),
          ret |-> Some(At(s.values, key_idx(s, key).n))]
    ELSE [s |-> StringMap(Append(s.keys, key), Append(s.values, value)),
          ret |-> None]

\* StringMap::insert: the map it leaves and the value it returns
sm_insert(s, key, value) ==
    LET n == key_idx(s, key).n
    IN  IF key_idx(s, key).ok
        THEN [s |-> StringMap(Put(s.keys, n, key), Put(s.values, n, value)),
              ret |-> Some(At(s.values, n))]
        ELSE [s |-> StringMap(vec_insert(s.keys, n, key),
                              vec_insert(s.values, n, value)),
              ret |-> None]

\* a remove that takes the key out of keys and the last value out of values
sm_remove_last_value(s, key) ==
    LET n == key_idx(s, key).n
    IN  IF key_idx(s, key).ok
        THEN [s |-> StringMap(vec_remove(s.keys, n), vec_pop(s.values)),
              ret |-> Some(At(s.values, n))]
        ELSE [s |-> s, ret |-> None]

\* StringMap::remove
sm_remove(s, key) ==
    LET n == key_idx(s, key).n
    IN  IF key_idx(s, key).ok
        THEN [s |-> StringMap(vec_remove(s.keys, n), vec_remove(s.values, n)),
              ret |-> Some(At(s.values, n))]
        ELSE [s |-> s, ret |-> None]

\* StringMap::get
sm_get(s, key) ==
    IF key_idx(s, key).ok THEN Some(At(s.values, key_idx(s, key).n)) ELSE None

\* StringMap::get_mut: the position of the value the reference points to
sm_get_mut(s, key) ==
    IF key_idx(s, key).ok THEN Some(key_idx(s, key).n) ELSE None

\* *map.get_mut(key).unwrap() = value
sm_write(s, key, value) ==
    StringMap(s.keys, Put(s.values, unwrap(sm_get_mut(s, key)), value))

\* StringMap::items: the keys zipped with the values
sm_items(s) == [k \in 1..Len(s.keys) |-> <<s.keys[k], s.values[k]>>]

\* Index for StringMap: get(n).unwrap()
sm_index(s, key) == [ret |-> sm_get(s, key), panic |-> sm_get(s, key) = None]

\* ------------------------------------------------------------------ state
VARIABLES
    data,          \* SparseVec::data
    positions,     \* SparseVec::positions
    free_indices,  \* SparseVec::free_indices
    panicked,      \* a call has panicked
    cap,           \* the number of elements the caller fills the store with
    live,          \* history: index -> value, for the indices insert has
                   \* returned and remove has not taken back since
    freed,         \* history: the indices removed and not reissued, the most
                   \* recently removed last
    net,           \* history: inserts minus elements removed
    last           \* history: the last call, its result, the state before it

sparseVecVars ==
    <<data, positions, free_indices, panicked, cap, live, freed, net, last>>

VARIABLES
    dynamic,       \* a SparseSet<usize>
    static,        \* a StaticSparseSet<usize, SetN> given the same calls
    setLive,       \* history, kept as long as the dynamic set runs: index ->
                   \* value, for the indices its insert has returned and its
                   \* remove has not taken back since
    setOut         \* history: the last call on the two sets, what each
                   \* returned, the state before it

setVars == <<dynamic, static, setLive, setOut>>

VARIABLES
    staticvec,     \* a StaticVec<usize, VecN>
    vec,           \* a Vec<usize> given the same calls
    pushed,        \* history, kept as long as only push and pop have changed
                   \* the StaticVec: the values pushed and not yet popped,
                   \* and pushes minus successful pops
    vecOut         \* history: the last call, what each vector returned, the
                   \* values pushed and not popped before it

vecVars == <<staticvec, vec, pushed, vecOut>>

VARIABLES
    recycling,     \* a RecyclingVec<Vec<usize>>
    made,          \* the number of elements constructed so far
    rvOut          \* history: the last call, its result, what it has called,
                   \* the state before it

recyclingVars == <<recycling, made, rvOut>>

VARIABLES
    hashmap,       \* a RecyclingHashMap<usize, Vec<usize>>
    hmOut          \* history: what the last call on it has done

hashMapVars == <<hashmap, hmOut>>

VARIABLES
    stringmap,     \* a StringMap<u32>
    smLive,        \* history: key -> value, for the keys inserted and not
                   \* removed since, the value being the one last inserted
                   \* or written
    smOut          \* history: what the last call on it has done

stringMapVars == <<stringmap, smLive, smOut>>

VARIABLES
    nested,        \* a RecyclingVec<RecyclingVec<Vec<usize>>>
    nestedOut      \* history: what the last call on it has done

nestedVars == <<nested, nestedOut>>

vars ==
    <<sparseVecVars, setVars, vecVars, recyclingVars, hashMapVars,
      stringMapVars, nestedVars>>

\* what the calls on one container leave alone: the other containers
notSparseVec ==
    <<setVars, vecVars, recyclingVars, hashMapVars, stringMapVars, nestedVars>>
notSet ==
    <<sparseVecVars, vecVars, recyclingVars, hashMapVars, stringMapVars,
      nestedVars>>
notVec ==
    <<sparseVecVars, setVars, recyclingVars, hashMapVars, stringMapVars,
      nestedVars>>
notRecycling ==
    <<sparseVecVars, setVars, vecVars, hashMapVars, stringMapVars, nestedVars>>
notHashMap ==
    <<sparseVecVars, setVars, vecVars, recyclingVars, stringMapVars,
      nestedVars>>
notStringMap ==
    <<sparseVecVars, setVars, vecVars, recyclingVars, hashMapVars, nestedVars>>
notNested ==
    <<sparseVecVars, setVars, vecVars, recyclingVars, hashMapVars,
      stringMapVars>>

self == SparseVec(data, positions, free_indices)

\* the indices callers pass: every index that can be allocated, and cap,
\* which never is
Indices == 0..cap

NoLive == [i \in {} |-> 0]

\* the record of a call; the state before it is kept for insert, remove and
\* clear
Call(op, n, v, ret) ==
    LET kept == op \in {"insert", "remove", "clear"}
    IN  [op |-> op, n |-> n, v |-> v, ret |-> ret,
         pre |-> IF kept THEN self ELSE default,
         preLive |-> IF kept THEN live ELSE NoLive,
         preFreed |-> IF kept THEN freed ELSE <<>>,
         \* for a remove: the call before it, when that was the insert that
         \* returned n
         rt |-> IF op = "remove" /\ last.op = "insert" /\ last.ret = Some(n)
                THEN <<[pre |-> last.pre, preLive |-> last.preLive,
                        v |-> last.v]>>
                ELSE <<>>]

Store(s) ==
    /\ data' = s.data
    /\ positions' = s.positions
    /\ free_indices' = s.free_indices

\* let mut set = SparseVec::new()
New(c) ==
    /\ data = default.data
    /\ positions = default.positions
    /\ free_indices = default.free_indices
    /\ panicked = FALSE
    /\ cap = c
    /\ live = NoLive
    /\ freed = <<>>
    /\ net = 0
    /\ last = [op |-> "new", n |-> 0, v |-> 0, ret |-> None,
               pre |-> default, preLive |-> NoLive, preFreed |-> <<>>,
               rt |-> <<>>]

Without(f, n) == [i \in DOMAIN f \ {n} |-> f[i]]
With(f, n, v) == [i \in DOMAIN f \cup {n} |-> IF i = n THEN v ELSE f[i]]
Drop(q, n) == SelectSeq(q, LAMBDA x : x # n)

Insert(v) ==
    /\ ~panicked
    /\ Len(data) < cap
    /\ LET r == insert(self, v)
       IN  /\ Store(r.s)
           /\ live' = With(live, r.ret, v)
           /\ freed' = Drop(freed, r.ret)
           /\ last' = Call("insert", r.ret, v, Some(r.ret))
    /\ net' = net + 1
    /\ UNCHANGED <<panicked, cap>>
    /\ UNCHANGED notSparseVec

Remove(n) ==
    /\ ~panicked
    /\ LET r == remove(self, n)
       IN  /\ Store(r.s)
           /\ panicked' = r.panic
           /\ live' = IF r.ret # None THEN Without(live, n) ELSE live
           /\ freed' = IF r.ret # None THEN Append(Drop(freed, n), n) ELSE freed
           /\ net' = IF r.ret # None THEN net - 1 ELSE net
           /\ last' = Call("remove", n, 0, r.ret)
    /\ UNCHANGED cap
    /\ UNCHANGED notSparseVec

Get(n) ==
    /\ ~panicked
    /\ last' = Call("get", n, 0, get(self, n))
    /\ UNCHANGED <<data, positions, free_indices, panicked, cap, live, freed, net>>
    /\ UNCHANGED notSparseVec

\* if let Some(x) = get_mut(n) { *x = v }
GetMut(n, v) ==
    /\ ~panicked
    /\ IF get_mut(self, n) = None
       THEN UNCHANGED <<data, positions, free_indices, live>>
       ELSE /\ Store(write(self, n, v))
            /\ live' = IF n \in DOMAIN live THEN With(live, n, v) ELSE live
    /\ last' = Call("get_mut", 0, 0, None)
    /\ UNCHANGED <<panicked, cap, freed, net>>
    /\ UNCHANGED notSparseVec

Contains(n) ==
    /\ ~panicked
    /\ last' = Call("contains", n, 0, Some(contains(self, n)))
    /\ UNCHANGED <<data, positions, free_indices, panicked, cap, live, freed, net>>
    /\ UNCHANGED notSparseVec

\* store[n]
Index(n) ==
    /\ ~panicked
    /\ panicked' = index(self, n).panic
    /\ last' = Call("index", n, 0, index(self, n).ret)
    /\ UNCHANGED <<data, positions, free_indices, cap, live, freed, net>>
    /\ UNCHANGED notSparseVec

\* store[n] = v
IndexMut(n, v) ==
    /\ ~panicked
    /\ LET r == index_mut(self, n, v)
       IN  /\ Store(r.s)
           /\ panicked' = r.panic
           /\ live' = IF ~r.panic /\ n \in DOMAIN live
                      THEN With(live, n, v) ELSE live
    /\ last' = Call("index_mut", 0, 0, None)
    /\ UNCHANGED <<cap, freed, net>>
    /\ UNCHANGED notSparseVec

\* keys(), values() and items() collected
Iterate ==
    /\ ~panicked
    /\ last' = Call("iterate", 0, 0,
                    Some([keys |-> keys(self), values |-> values(self),
                          items |-> items(self)]))
    /\ UNCHANGED <<data, positions, free_indices, panicked, cap, live, freed, net>>
    /\ UNCHANGED notSparseVec

\* *x += 1, wrapping within Values
bump == [v \in Values |-> (v % MaxVal) + 1]

\* for x in values_mut() { *x = f[*x] }
ValuesMut(f) ==
    /\ ~panicked
    /\ Store(values_mut(self, f))
    /\ live' = [i \in DOMAIN live |-> f[live[i]]]
    /\ last' = Call("values_mut", 0, 0, None)
    /\ UNCHANGED <<panicked, cap, freed, net>>
    /\ UNCHANGED notSparseVec

\* clear takes every element out of the store
Clear ==
    /\ ~panicked
    /\ Store(clear(self))
    /\ live' = NoLive
    /\ freed' = <<>>
    /\ net' = net - Len(data)
    /\ last' = Call("clear", 0, 0, None)
    /\ UNCHANGED <<panicked, cap>>
    /\ UNCHANGED notSparseVec

Next ==
    \/ \E v \in Values : Insert(v)
    \/ \E n \in Indices : Remove(n)
    \/ \E n \in Indices : Get(n)
    \/ \E n \in Indices, v \in Values : GetMut(n, v)
    \/ \E n \in Indices : Contains(n)
    \/ \E n \in Indices : Index(n)
    \/ \E n \in Indices, v \in Values : IndexMut(n, v)
    \/ Iterate
    \/ ValuesMut(bump)
    \/ Clear

\* ------------------------------------------- SparseSet and StaticSparseSet
\* a SparseSet<usize> and a StaticSparseSet<usize, SetN> receive the same
\* calls, side by side
\* GenericSparseSet::<usize, DynamicContainerMarker>::new() and
\* GenericSparseSet::<usize, StaticContainerMarker<SetN>>::new()
SetInit ==
    /\ dynamic = set_new(DynamicContainerMarker)
    /\ static = set_new(StaticContainerMarker(SetN))
    /\ setLive = NoLive
    /\ setOut = [op |-> "new", n |-> 0,
                 dyn |-> [ret |-> None, panic |-> FALSE],
                 sta |-> [ret |-> None, panic |-> FALSE],
                 pre |-> <<>>]

\* a panic ends the run of the set it happens in.  The static set runs on
\* after a panic of the dynamic one; the calls end when the static set
\* panics, which within SetN indices is never before the dynamic one
dynamicDead == setOut.dyn.panic
staticDead == setOut.sta.panic
setPanicked == staticDead

\* the unwinding of a panic drops the dynamic set and what the caller knew
\* of it
Dropped == set_new(DynamicContainerMarker)

\* the indices callers pass to the two sets: every index the static set can
\* allocate, and SetN, which it never can
SetIndices == 0..SetN

\* what a call returned and whether it panicked; a set that has panicked
\* takes no call
Outcome(dead, r) ==
    IF dead THEN [ret |-> None, panic |-> TRUE]
    ELSE [ret |-> r.ret, panic |-> r.panic]
Returned(dead, x) ==
    IF dead THEN [ret |-> None, panic |-> TRUE]
    ELSE [ret |-> x, panic |-> FALSE]

\* the record of a call on both sets: what each returned; for insert and
\* remove also the state before it, and for remove its argument
SetCall(op, n, d, s) ==
    [op |-> op, n |-> IF op = "remove" THEN n ELSE 0, dyn |-> d, sta |-> s,
     pre |-> IF op \in {"insert", "remove"}
             THEN <<[static |-> static, live |-> setLive,
                     dynamicDead |-> dynamicDead]>>
             ELSE <<>>]

SetInsert(v) ==
    /\ ~setPanicked
    /\ LET d == set_insert(dynamic, v)
           s == set_insert(static, v)
       IN  /\ dynamic' = IF dynamicDead \/ d.panic THEN Dropped ELSE d.s
           /\ static' = IF staticDead THEN static ELSE s.s
           /\ setLive' = IF dynamicDead \/ d.panic THEN NoLive
                          ELSE With(setLive, unwrap(d.ret), v)
           /\ setOut' = SetCall("insert", 0, Outcome(dynamicDead, d),
                                Outcome(staticDead, s))
    /\ UNCHANGED notSet

SetRemove(n) ==
    /\ ~setPanicked
    /\ LET d == set_remove(dynamic, n)
           s == set_remove(static, n)
       IN  /\ dynamic' = IF dynamicDead \/ d.panic THEN Dropped ELSE d.s
           /\ static' = IF staticDead THEN static ELSE s.s
           /\ setLive' = IF dynamicDead \/ d.panic THEN NoLive
                          ELSE IF d.ret = Some(TRUE)
                          THEN Without(setLive, n) ELSE setLive
           /\ setOut' = SetCall("remove", n, Outcome(dynamicDead, d),
                                Outcome(staticDead, s))
    /\ UNCHANGED notSet

SetContains(n) ==
    /\ ~setPanicked
    /\ setOut' = SetCall("contains", n,
                         Returned(dynamicDead, Some(set_contains(dynamic, n))),
                         Returned(staticDead, Some(set_contains(static, n))))
    /\ UNCHANGED <<dynamic, static, setLive, notSet>>

SetGet(n) ==
    /\ ~setPanicked
    /\ setOut' = SetCall("get", n,
                         Returned(dynamicDead, set_get(dynamic, n)),
                         Returned(staticDead, set_get(static, n)))
    /\ UNCHANGED <<dynamic, static, setLive, notSet>>

\* the value a caller writes over x: the next of Values, the first after
\* the last
Bumped(x) == (x % MaxVal) + 1

\* if let Some(x) = get_mut(n) { *x = Bumped(*x) }; the call returns what x
\* held
SetGetMut(n) ==
    /\ ~setPanicked
    /\ LET d == ~dynamicDead /\ set_get_mut(dynamic, n) # None
           s == ~staticDead /\ set_get_mut(static, n) # None
       IN  /\ dynamic' = IF d THEN set_write(dynamic, n,
                                             Bumped(unwrap(set_get(dynamic, n))))
                         ELSE dynamic
           /\ static' = IF s THEN set_write(static, n,
                                            Bumped(unwrap(set_get(static, n))))
                        ELSE static
           /\ setLive' = IF d /\ n \in DOMAIN setLive
                          THEN With(setLive, n,
                                    Bumped(unwrap(set_get(dynamic, n))))
                          ELSE setLive
    /\ setOut' = SetCall("get_mut", n,
                         Returned(dynamicDead, set_get_mut(dynamic, n)),
                         Returned(staticDead, set_get_mut(static, n)))
    /\ UNCHANGED notSet

\* set[n]
SetIndex(n) ==
    /\ ~setPanicked
    /\ setOut' = SetCall("index", n,
                         Outcome(dynamicDead, set_index(dynamic, n)),
                         Outcome(staticDead, set_index(static, n)))
    /\ dynamic' = IF dynamicDead \/ set_index(dynamic, n).panic
                  THEN Dropped ELSE dynamic
    /\ setLive' = IF dynamicDead \/ set_index(dynamic, n).panic
                   THEN NoLive ELSE setLive
    /\ UNCHANGED <<static, notSet>>

\* keys(), values() and items() collected
SetIterate ==
    /\ ~setPanicked
    /\ setOut' = SetCall("iterate", 0,
                         Returned(dynamicDead,
                                  Some([keys |-> set_keys(dynamic),
                                        values |-> set_values(dynamic),
                                        items |-> set_items(dynamic)])),
                         Returned(staticDead,
                                  Some([keys |-> set_keys(static),
                                        values |-> set_values(static),
                                        items |-> set_items(static)])))
    /\ UNCHANGED <<dynamic, static, setLive, notSet>>

NextSet ==
    \/ \E v \in Values : SetInsert(v)
    \/ \E n \in SetIndices : SetRemove(n)
    \/ \E n \in SetIndices : SetContains(n)
    \/ \E n \in SetIndices : SetGet(n)
    \/ \E n \in SetIndices : SetGetMut(n)
    \/ \E n \in SetIndices : SetIndex(n)
    \/ SetIterate

\* ------------------------------------------------------ StaticVec and Vec
\* StaticVec::<usize, VecN>::new() and Vec::<usize>::new()
VecInit ==
    /\ staticvec = sv_new(VecN, 0)
    /\ vec = Vec(<<>>)
    /\ pushed = [plain |-> TRUE, stack |-> <<>>, net |-> 0]
    /\ vecOut = [op |-> "new", sta |-> [ret |-> None, panic |-> FALSE],
                 vec |-> [ret |-> None, panic |-> FALSE], pre |-> <<>>]

\* a panic ends the run of the vector it happens in.  The StaticVec runs on
\* after a panic of the Vec, which the unwinding drops; the calls end when
\* the StaticVec panics
vecDead == vecOut.vec.panic
staticvecDead == vecOut.sta.panic

\* the positions callers pass: every slot of the array, and VecN, which is
\* none
VecIndices == 0..VecN

\* the history once something else than push and pop has changed the vector
NotPlain == [plain |-> FALSE, stack |-> <<>>, net |-> 0]

\* the record of a call on both vectors
VecCall(op, s, v) ==
    [op |-> op, sta |-> s, vec |-> v,
     pre |-> IF op = "pop" THEN pushed.stack ELSE <<>>]

\* the Vec after a call that leaves it as r.c
VecAfter(r) == IF vecDead \/ r.panic THEN Vec(<<>>) ELSE r.c

VecPush(v) ==
    /\ ~staticvecDead
    /\ LET s == vl_push(staticvec, v)
           d == vl_push(vec, v)
       IN  /\ staticvec' = s.c
           /\ vec' = VecAfter(d)
           /\ pushed' = IF pushed.plain /\ ~s.panic
                        THEN [plain |-> TRUE, stack |-> Append(pushed.stack, v),
                              net |-> pushed.net + 1]
                        ELSE pushed
           /\ vecOut' = VecCall("push", [ret |-> None, panic |-> s.panic],
                                Outcome(vecDead, [ret |-> None, panic |-> d.panic]))
    /\ UNCHANGED notVec

VecPop ==
    /\ ~staticvecDead
    /\ LET s == vl_pop(staticvec, 0)
           d == vl_pop(vec, 0)
       IN  /\ staticvec' = s.c
           /\ vec' = IF vecDead THEN vec ELSE d.c
           /\ pushed' = IF pushed.plain /\ s.ret # None
                        THEN [plain |-> TRUE,
                              stack |-> IF pushed.stack = <<>> THEN <<>>
                                        ELSE vec_pop(pushed.stack),
                              net |-> pushed.net - 1]
                        ELSE pushed
           /\ vecOut' = VecCall("pop", Returned(FALSE, s.ret),
                                Returned(vecDead, d.ret))
    /\ UNCHANGED notVec

VecSwapRemove(n) ==
    /\ ~staticvecDead
    /\ LET s == vl_swap_remove(staticvec, n, 0)
           d == vl_swap_remove(vec, n, 0)
       IN  /\ staticvec' = s.c
           /\ vec' = VecAfter(d)
           /\ pushed' = IF s.panic THEN pushed ELSE NotPlain
           /\ vecOut' = VecCall("swap_remove", Outcome(FALSE, s),
                                Outcome(vecDead, d))
    /\ UNCHANGED notVec

\* len() and iter() collected
VecIter ==
    /\ ~staticvecDead
    /\ vecOut' = VecCall("iter",
                         Returned(FALSE, Some([len |-> vl_len(staticvec),
                                               iter |-> vl_iter(staticvec)])),
                         Returned(vecDead, Some([len |-> vl_len(vec),
                                                 iter |-> vl_iter(vec)])))
    /\ UNCHANGED <<staticvec, vec, pushed, notVec>>

VecGet(n) ==
    /\ ~staticvecDead
    /\ vecOut' = VecCall("get", Returned(FALSE, vl_get(staticvec, n)),
                         Returned(vecDead, vl_get(vec, n)))
    /\ UNCHANGED <<staticvec, vec, pushed, notVec>>

\* if let Some(x) = get_mut(n) { *x = v }
VecGetMut(n, v) ==
    /\ ~staticvecDead
    /\ LET s == vl_get(staticvec, n) # None
           d == ~vecDead /\ vl_get(vec, n) # None
       IN  /\ staticvec' = IF s THEN vl_index_mut(staticvec, n, v).c
                           ELSE staticvec
           /\ vec' = IF d THEN vl_index_mut(vec, n, v).c ELSE vec
           /\ pushed' = IF s THEN NotPlain ELSE pushed
    /\ vecOut' = VecCall("get_mut", Returned(FALSE, vl_get(staticvec, n)),
                         Returned(vecDead, vl_get(vec, n)))
    /\ UNCHANGED notVec

\* vec[n]
VecIndex(n) ==
    /\ ~staticvecDead
    /\ vecOut' = VecCall("index", Outcome(FALSE, vl_index(staticvec, n)),
                         Outcome(vecDead, vl_index(vec, n)))
    /\ vec' = IF vecDead \/ vl_index(vec, n).panic THEN Vec(<<>>) ELSE vec
    /\ UNCHANGED <<staticvec, pushed, notVec>>

\* vec[n] = v
VecIndexMut(n, v) ==
    /\ ~staticvecDead
    /\ LET s == vl_index_mut(staticvec, n, v)
           d == vl_index_mut(vec, n, v)
       IN  /\ staticvec' = s.c
           /\ vec' = VecAfter(d)
           /\ pushed' = IF s.panic THEN pushed ELSE NotPlain
           /\ vecOut' = VecCall("index_mut", [ret |-> None, panic |-> s.panic],
                                Outcome(vecDead, [ret |-> None, panic |-> d.panic]))
    /\ UNCHANGED notVec

NextVec ==
    \/ \E v \in Values : VecPush(v)
    \/ VecPop
    \/ \E n \in VecIndices : VecSwapRemove(n)
    \/ VecIter
    \/ \E n \in VecIndices : VecGet(n)
    \/ \E n \in VecIndices, v \in Values : VecGetMut(n, v)
    \/ \E n \in VecIndices : VecIndex(n)
    \/ \E n \in VecIndices, v \in Values : VecIndexMut(n, v)

\* ------------------------------------------------------------ RecyclingVec
\* what a call on the RecyclingVec has done: args are its arguments, ret what
\* it returned, cleared the elements it has called clear() on, in that
\* order, pre the vector before it; popped is the element the call before
\* has taken from the live ones, as it was then, if that call was a pop
RvCall(op, args, ctor_called, init_called, cleared, ret, panic) ==
    [op |-> op, args |-> args, ctor_called |-> ctor_called,
     init_called |-> init_called, cleared |-> cleared, ret |-> ret,
     panic |-> panic, pre |-> recycling,
     popped |-> IF rvOut.op = "pop" /\ rvOut.pre.vec # <<>>
                THEN <<vec_last(rvOut.pre.vec)>> ELSE <<>>]

\* the arguments of a call: a position, a constructor, an initializer
RvArgs(i, ctor, init) == [i |-> i, ctor |-> ctor, init |-> init]
NoArgs == RvArgs(0, 0, "nothing")

\* RecyclingVec::<Vec<usize>>::default()
RecyclingInit ==
    /\ recycling = rv_default
    /\ made = 0
    /\ rvOut = [op |-> "new", args |-> NoArgs, ctor_called |-> FALSE,
                init_called |-> FALSE, cleared |-> <<>>, ret |-> None,
                panic |-> FALSE, pre |-> rv_default, popped |-> <<>>]

\* the positions callers pass: every position of RecN live elements, and
\* RecN, which is none
RvIndices == 0..RecN

\* the constructors callers pass: || vec![0; k]
Ctors == 0..ElemLen

\* push(ctor, init); the constructor is called for RecN elements at most.
\* The call returns vec.last_mut()
RvPush(ctor, init) ==
    /\ ~rvOut.panic
    /\ recycling.dead # <<>> \/ made < RecN
    /\ LET r == rv_push(recycling, ctor, init, made + 1)
       IN  /\ recycling' = r.s
           /\ made' = IF r.ctor_called THEN made + 1 ELSE made
           /\ rvOut' = RvCall("push", RvArgs(0, ctor, init), r.ctor_called, r.init_called, <<>>,
                              Some(vec_last(r.s.vec)), FALSE)
    /\ UNCHANGED notRecycling

RvPushDefault ==
    /\ ~rvOut.panic
    /\ recycling.dead # <<>> \/ made < RecN
    /\ LET r == rv_push_default(recycling, made + 1)
       IN  /\ recycling' = r.s
           /\ made' = IF r.ctor_called THEN made + 1 ELSE made
           /\ rvOut' = RvCall("push_default", NoArgs, r.ctor_called,
                              r.init_called, <<>>, Some(vec_last(r.s.vec)), FALSE)
    /\ UNCHANGED notRecycling

\* push_recycled(init) returns vec.last_mut(), or None
RvPushRecycled(init) ==
    /\ ~rvOut.panic
    /\ LET r == rv_push_recycled(recycling, init)
       IN  /\ recycling' = r.s
           /\ rvOut' = RvCall("push_recycled", RvArgs(0, 0, init), FALSE,
                              r.init_called, <<>>,
                              IF r.ret = None THEN None
                              ELSE Some(At(r.s.vec, unwrap(r.ret))), FALSE)
    /\ UNCHANGED <<made, notRecycling>>

RvPop ==
    /\ ~rvOut.panic
    /\ recycling' = rv_pop(recycling).s
    /\ rvOut' = RvCall("pop", NoArgs, FALSE, FALSE, rv_pop(recycling).cleared,
                       None, FALSE)
    /\ UNCHANGED <<made, notRecycling>>

RvSwapRemove(i) ==
    /\ ~rvOut.panic
    /\ LET r == rv_swap_remove(recycling, i)
       IN  /\ recycling' = r.s
           /\ rvOut' = RvCall("swap_remove", RvArgs(i, 0, "nothing"), FALSE, FALSE,
                              r.cleared, None, r.panic)
    /\ UNCHANGED <<made, notRecycling>>

RvClear ==
    /\ ~rvOut.panic
    /\ recycling' = rv_clear(recycling).s
    /\ rvOut' = RvCall("clear", NoArgs, FALSE, FALSE, rv_clear(recycling).cleared,
                       None, FALSE)
    /\ UNCHANGED <<made, notRecycling>>

\* let cloned = data.clone()
RvClone ==
    /\ ~rvOut.panic
    /\ rvOut' = RvCall("clone", NoArgs, FALSE, FALSE, <<>>,
                       Some(rv_clone(recycling)), FALSE)
    /\ UNCHANGED <<recycling, made, notRecycling>>

\* data[i].push(0), through IndexMut, which panics for i >= len; callers put
\* up to ElemLen items into an element
RvIndexMut(i) ==
    /\ ~rvOut.panic
    /\ i < Len(recycling.vec) => At(recycling.vec, i).len < ElemLen
    /\ recycling' = IF i < Len(recycling.vec)
                    THEN RecyclingVec(Put(recycling.vec, i,
                                          el_push(At(recycling.vec, i))),
                                      recycling.dead)
                    ELSE recycling
    /\ rvOut' = RvCall("index_mut", RvArgs(i, 0, "nothing"), FALSE, FALSE, <<>>,
                       None, i >= Len(recycling.vec))
    /\ UNCHANGED <<made, notRecycling>>

NextRecycling ==
    \/ \E ctor \in Ctors, init \in Inits : RvPush(ctor, init)
    \/ RvPushDefault
    \/ \E init \in Inits : RvPushRecycled(init)
    \/ RvPop
    \/ \E i \in RvIndices : RvSwapRemove(i)
    \/ RvClear
    \/ RvClone
    \/ \E i \in RvIndices : RvIndexMut(i)

\* -------------------------------------------------------- RecyclingHashMap
\* what a call on the RecyclingHashMap has done: key is its argument, ctor
\* and init the constructor and the initializer it was given, if it has
\* called them, entry the Entry that entry(key) gave, ret the value the call
\* returned a reference to, cleared the values it has called clear() on, as
\* they were and in that order, pre the map before it, kept for the calls
\* that insert, remove or give an entry
HmCall(op, key, ctor, init, entry, ctor_called, init_called, cleared, ret, panic) ==
    [op |-> op, key |-> key, ctor |-> IF ctor_called THEN ctor ELSE 0,
     init |-> IF init_called THEN init ELSE "nothing", entry |-> entry,
     ctor_called |-> ctor_called, init_called |-> init_called,
     cleared |-> cleared, ret |-> ret, panic |-> panic,
     pre |-> IF op \in {"and_modify", "get_mut", "index"} THEN hm_default
             ELSE hashmap]

\* RecyclingHashMap::<usize, Vec<usize>>::default()
HashMapInit ==
    /\ hashmap = hm_default
    /\ hmOut = [op |-> "new", key |-> 0, ctor |-> 0, init |-> "nothing",
                entry |-> "", ctor_called |-> FALSE, init_called |-> FALSE,
                cleared |-> <<>>, ret |-> None, panic |-> FALSE,
                pre |-> hm_default]

\* the keys callers pass
Keys == 0..(KeyN - 1)

\* insert(key, ctor, init)
HmInsert(key, ctor, init) ==
    /\ ~hmOut.panic
    /\ LET r == hm_insert(hashmap, key, ctor, init)
       IN  /\ hashmap' = r.s
           /\ hmOut' = HmCall("insert", key, ctor, init, "", r.ctor_called,
                              r.init_called, r.cleared, Some(r.ret), FALSE)
    /\ UNCHANGED notHashMap

\* insert_default(key)
HmInsertDefault(key) ==
    /\ ~hmOut.panic
    /\ LET r == hm_insert_default(hashmap, key)
       IN  /\ hashmap' = r.s
           /\ hmOut' = HmCall("insert_default", key, 0, "nothing", "",
                              r.ctor_called, r.init_called, r.cleared,
                              Some(r.ret), FALSE)
    /\ UNCHANGED notHashMap

\* remove(&key)
HmRemove(key) ==
    /\ ~hmOut.panic
    /\ hashmap' = hm_remove(hashmap, key).s
    /\ hmOut' = HmCall("remove", key, 0, "nothing", "", FALSE, FALSE,
                       hm_remove(hashmap, key).cleared, None, FALSE)
    /\ UNCHANGED notHashMap

\* clear(); the drain visits the keys in an order of its own
HmClear ==
    /\ ~hmOut.panic
    /\ \E order \in Orders(hashmap.map) :
           /\ hashmap' = hm_clear(hashmap, order).s
           /\ hmOut' = HmCall("clear", 0, 0, "nothing", "", FALSE, FALSE,
                              hm_clear(hashmap, order).cleared, None, FALSE)
    /\ UNCHANGED notHashMap

\* let _ = data.entry(key): the entry is dropped
HmEntry(key) ==
    /\ ~hmOut.panic
    /\ hmOut' = HmCall("entry", key, 0, "nothing", hm_entry(hashmap, key).tag,
                       FALSE, FALSE, <<>>, None, FALSE)
    /\ UNCHANGED <<hashmap, notHashMap>>

\* entry(key).or_insert(ctor, init)
HmOrInsert(key, ctor, init) ==
    /\ ~hmOut.panic
    /\ LET entry == hm_entry(hashmap, key)
           r == entry_or_insert(hashmap, entry, ctor, init)
       IN  /\ hashmap' = r.s
           /\ hmOut' = HmCall("or_insert", key, ctor, init, entry.tag,
                              r.ctor_called, r.init_called, r.cleared,
                              Some(r.ret), FALSE)
    /\ UNCHANGED notHashMap

\* entry(key).or_insert_default()
HmOrInsertDefault(key) ==
    /\ ~hmOut.panic
    /\ LET entry == hm_entry(hashmap, key)
           r == entry_or_insert_default(hashmap, entry)
       IN  /\ hashmap' = r.s
           /\ hmOut' = HmCall("or_insert_default", key, 0, "nothing",
                              entry.tag, r.ctor_called, r.init_called,
                              r.cleared, Some(r.ret), FALSE)
    /\ UNCHANGED notHashMap

\* let _ = data.entry(key).and_modify(|v| v.push(0)); callers put up to
\* ElemLen items into a value
HmAndModify(key) ==
    /\ ~hmOut.panic
    /\ key \in DOMAIN hashmap.map => hashmap.map[key].len < ElemLen
    /\ hashmap' = entry_and_modify(hashmap, hm_entry(hashmap, key))
    /\ hmOut' = HmCall("and_modify", key, 0, "nothing",
                       hm_entry(hashmap, key).tag, FALSE, FALSE, <<>>, None,
                       FALSE)
    /\ UNCHANGED notHashMap

\* data.get_mut(&key).map(|v| v.push(0))
HmGetMut(key) ==
    /\ ~hmOut.panic
    /\ key \in DOMAIN hashmap.map => hashmap.map[key].len < ElemLen
    /\ hashmap' = IF key \in DOMAIN hashmap.map
                  THEN RecyclingHashMap(map_insert(hashmap.map, key,
                                            el_push(hashmap.map[key])),
                                        hashmap.dead)
                  ELSE hashmap
    /\ hmOut' = HmCall("get_mut", key, 0, "nothing", "", FALSE, FALSE, <<>>,
                       None, FALSE)
    /\ UNCHANGED notHashMap

\* &data[&key], through Index, which panics for a key without an entry
HmIndex(key) ==
    /\ ~hmOut.panic
    /\ hmOut' = HmCall("index", key, 0, "nothing", "", FALSE, FALSE, <<>>,
                       None, hm_get(hashmap, key) = None)
    /\ UNCHANGED <<hashmap, notHashMap>>

NextHashMap ==
    \/ \E key \in Keys, ctor \in Ctors, init \in Inits :
           HmInsert(key, ctor, init)
    \/ \E key \in Keys : HmInsertDefault(key)
    \/ \E key \in Keys : HmRemove(key)
    \/ HmClear
    \/ \E key \in Keys : HmEntry(key)
    \/ \E key \in Keys, ctor \in Ctors, init \in Inits :
           HmOrInsert(key, ctor, init)
    \/ \E key \in Keys : HmOrInsertDefault(key)
    \/ \E key \in Keys : HmAndModify(key)
    \/ \E key \in Keys : HmGetMut(key)
    \/ \E key \in Keys : HmIndex(key)

\* ---------------------------------------------------------------- StringMap
\* what a call on the StringMap has done; the map and the history before it
\* are kept for insert and remove
SmCall(op, key, ret, panic) ==
    LET kept == op \in {"insert", "remove"}
    IN  [op |-> op, key |-> key, ret |-> ret, panic |-> panic,
         pre |-> IF kept THEN stringmap ELSE sm_default,
         preLive |-> IF kept THEN smLive ELSE NoLive]

\* StringMap::<u32>::default()
StringMapInit ==
    /\ stringmap = sm_default
    /\ smLive = NoLive
    /\ smOut = [op |-> "new", key |-> <<>>, ret |-> None, panic |-> FALSE,
                pre |-> sm_default, preLive |-> NoLive]

\* the keys callers pass: "a", "aa", "ab" and "b", one of them a prefix of
\* two others
StrKeys == {<<1>>, <<1, 1>>, <<1, 2>>, <<2>>}

\* map.insert(key.to_string(), v)
SmInsert(key, v) ==
    /\ ~smOut.panic
    /\ stringmap' = sm_insert(stringmap, key, v).s
    /\ smLive' = With(smLive, key, v)
    /\ smOut' = SmCall("insert", key, sm_insert(stringmap, key, v).ret, FALSE)
    /\ UNCHANGED notStringMap

\* map.remove(key)
SmRemove(key) ==
    /\ ~smOut.panic
    /\ stringmap' = sm_remove(stringmap, key).s
    /\ smLive' = Without(smLive, key)
    /\ smOut' = SmCall("remove", key, sm_remove(stringmap, key).ret, FALSE)
    /\ UNCHANGED notStringMap

\* map.get(key)
SmGet(key) ==
    /\ ~smOut.panic
    /\ smOut' = SmCall("get", key, sm_get(stringmap, key), FALSE)
    /\ UNCHANGED <<stringmap, smLive, notStringMap>>

\* map.contains_key(key)
SmContainsKey(key) ==
    /\ ~smOut.panic
    /\ smOut' = SmCall("contains_key", key,
                       Some(sm_contains_key(stringmap, key)), FALSE)
    /\ UNCHANGED <<stringmap, smLive, notStringMap>>

\* if let Some(x) = map.get_mut(key) { *x = v }
SmGetMut(key, v) ==
    /\ ~smOut.panic
    /\ stringmap' = IF sm_get_mut(stringmap, key) = None THEN stringmap
                    ELSE sm_write(stringmap, key, v)
    /\ smLive' = IF key \in DOMAIN smLive THEN With(smLive, key, v)
                 ELSE smLive
    /\ smOut' = SmCall("get_mut", key, sm_get(stringmap, key), FALSE)
    /\ UNCHANGED notStringMap

\* map[key], which panics for a key that is not in the map
SmIndex(key) ==
    /\ ~smOut.panic
    /\ smOut' = SmCall("index", key, sm_index(stringmap, key).ret,
                       sm_index(stringmap, key).panic)
    /\ UNCHANGED <<stringmap, smLive, notStringMap>>

\* map[key] = v, through IndexMut: get_mut(key).unwrap()
SmIndexMut(key, v) ==
    /\ ~smOut.panic
    /\ stringmap' = IF sm_get_mut(stringmap, key) = None THEN stringmap
                    ELSE sm_write(stringmap, key, v)
    /\ smLive' = IF key \in DOMAIN smLive /\ sm_get_mut(stringmap, key) # None
                 THEN With(smLive, key, v) ELSE smLive
    /\ smOut' = SmCall("index_mut", key, None,
                       sm_get_mut(stringmap, key) = None)
    /\ UNCHANGED notStringMap

\* map.len(), map.keys(), map.values(), map.items().collect()
SmItems ==
    /\ ~smOut.panic
    /\ smOut' = SmCall("items", <<>>,
                       Some([len |-> sm_len(stringmap),
                             keys |-> sm_keys(stringmap),
                             values |-> sm_values(stringmap),
                             items |-> sm_items(stringmap)]), FALSE)
    /\ UNCHANGED <<stringmap, smLive, notStringMap>>

NextStringMap ==
    \/ \E key \in StrKeys, v \in Values : SmInsert(key, v)
    \/ \E key \in StrKeys : SmRemove(key)
    \/ \E key \in StrKeys : SmGet(key)
    \/ \E key \in StrKeys : SmContainsKey(key)
    \/ \E key \in StrKeys, v \in Values : SmGetMut(key, v)
    \/ \E key \in StrKeys : SmIndex(key)
    \/ \E key \in StrKeys, v \in Values : SmIndexMut(key, v)
    \/ SmItems

\* ------------------------------------------------------ nested recycling
\* the record of a call on the outer vector: its position argument, its
\* initializer, and the vector before it
NestedCall(op, i, init, panic) ==
    [op |-> op, i |-> i, init |-> init, panic |-> panic, pre |-> nested]

\* RecyclingVec::<RecyclingVec<Vec<usize>>>::default()
NestedInit ==
    /\ nested = rv_default
    /\ nestedOut = [op |-> "new", i |-> 0, init |-> "nothing",
                    panic |-> FALSE, pre |-> rv_default]

\* the positions callers pass: every position of OuterN inner vectors, and
\* OuterN, which is none
NestedIndices == 0..OuterN

\* an inner vector can take one more child: from its pool, or constructed,
\* which is done for InnerN children at most
HasRoom(el) == el.dead # <<>> \/ RvOwned(el) < InnerN

\* data.push(Default::default, init); the constructor is called for OuterN
\* inner vectors at most
NestedPush(init) ==
    /\ ~nestedOut.panic
    /\ nested.dead # <<>> \/ RvOwned(nested) < OuterN
    /\ (init = "push" /\ nested.dead # <<>>) => HasRoom(vec_last(nested.dead))
    /\ nested' = rvv_push(nested, init)
    /\ nestedOut' = NestedCall("push", 0, init, FALSE)
    /\ UNCHANGED notNested

NestedPop ==
    /\ ~nestedOut.panic
    /\ nested' = rvv_pop(nested)
    /\ nestedOut' = NestedCall("pop", 0, "nothing", FALSE)
    /\ UNCHANGED notNested

NestedSwapRemove(i) ==
    /\ ~nestedOut.panic
    /\ nested' = rvv_swap_remove(nested, i).s
    /\ nestedOut' = NestedCall("swap_remove", i, "nothing",
                               rvv_swap_remove(nested, i).panic)
    /\ UNCHANGED notNested

NestedClear ==
    /\ ~nestedOut.panic
    /\ nested' = rvv_clear(nested)
    /\ nestedOut' = NestedCall("clear", 0, "nothing", FALSE)
    /\ UNCHANGED notNested

\* data[i].push(|| vec![0], init), through IndexMut, which panics for
\* i >= len
NestedChildPush(i, init) ==
    /\ ~nestedOut.panic
    /\ i < Len(nested.vec) => HasRoom(At(nested.vec, i))
    /\ nested' = IF i < Len(nested.vec)
                 THEN RecyclingVec(Put(nested.vec, i,
                                       rv_push(At(nested.vec, i), 1, init,
                                               0).s),
                                   nested.dead)
                 ELSE nested
    /\ nestedOut' = NestedCall("child_push", i, init, i >= Len(nested.vec))
    /\ UNCHANGED notNested

\* data[i].pop(), through IndexMut
NestedChildPop(i) ==
    /\ ~nestedOut.panic
    /\ nested' = IF i < Len(nested.vec)
                 THEN RecyclingVec(Put(nested.vec, i,
                                       rv_pop(At(nested.vec, i)).s),
                                   nested.dead)
                 ELSE nested
    /\ nestedOut' = NestedCall("child_pop", i, "nothing",
                               i >= Len(nested.vec))
    /\ UNCHANGED notNested

NextNested ==
    \/ \E init \in Inits : NestedPush(init)
    \/ NestedPop
    \/ \E i \in NestedIndices : NestedSwapRemove(i)
    \/ NestedClear
    \/ \E i \in NestedIndices, init \in Inits : NestedChildPush(i, init)
    \/ \E i \in NestedIndices : NestedChildPop(i)

\* ---------------------------------------------------------- specifications
\* every container starts new
Init ==
    /\ New(MaxLen) /\ SetInit /\ VecInit /\ RecyclingInit /\ HashMapInit
    /\ StringMapInit /\ NestedInit

InitDeep ==
    /\ New(DeepLen) /\ SetInit /\ VecInit /\ RecyclingInit /\ HashMapInit
    /\ StringMapInit /\ NestedInit

\* SparseVec: stores of up to MaxLen elements
Spec == Init /\ [][Next]_vars

\* SparseVec: stores of up to DeepLen elements
SpecDeep == InitDeep /\ [][Next]_vars

\* SparseSet and StaticSparseSet side by side
SpecSet == Init /\ [][NextSet]_vars

\* StaticVec and Vec side by side
SpecStaticVec == Init /\ [][NextVec]_vars

\* RecyclingVec
SpecRecycling == Init /\ [][NextRecycling]_vars

\* RecyclingHashMap
SpecHashMap == Init /\ [][NextHashMap]_vars

\* StringMap
SpecStringMap == Init /\ [][NextStringMap]_vars

\* the three containers that have a clear(): a program uses one of them, a
\* SparseVec, a RecyclingVec or a RecyclingHashMap, fills and empties it, and
\* clears it
OnlySparseVec == rvOut.op = "new" /\ hmOut.op = "new"
OnlyRecycling == last.op = "new" /\ hmOut.op = "new"
OnlyHashMap == last.op = "new" /\ rvOut.op = "new"

NextClear ==
    \/ OnlySparseVec /\ \E v \in Values : Insert(v)
    \/ OnlySparseVec /\ \E n \in Indices : Remove(n)
    \/ OnlySparseVec /\ Clear
    \/ OnlyRecycling /\ \E ctor \in Ctors, init \in Inits : RvPush(ctor, init)
    \/ OnlyRecycling /\ \E init \in Inits : RvPushRecycled(init)
    \/ OnlyRecycling /\ RvPop
    \/ OnlyRecycling /\ \E i \in RvIndices : RvSwapRemove(i)
    \/ OnlyRecycling /\ \E i \in RvIndices : RvIndexMut(i)
    \/ OnlyRecycling /\ RvClear
    \/ OnlyHashMap /\ \E key \in Keys, ctor \in Ctors, init \in Inits :
                          HmInsert(key, ctor, init)
    \/ OnlyHashMap /\ \E key \in Keys : HmRemove(key)
    \/ OnlyHashMap /\ \E key \in Keys : HmGetMut(key)
    \/ OnlyHashMap /\ HmClear

SpecClear == Init /\ [][NextClear]_vars

\* a program that uses one recycling container, a RecyclingVec or a
\* RecyclingHashMap, with the operations that construct, reuse, change or
\* remove its elements (clone, entry, and_modify and indexing, which neither
\* add nor remove one, and the _default forms of push, insert and or_insert,
\* which are calls of these, are left to the container's own specification)
NextPool ==
    \/ OnlyRecycling /\ \E ctor \in Ctors, init \in Inits : RvPush(ctor, init)
    \/ OnlyRecycling /\ \E init \in Inits : RvPushRecycled(init)
    \/ OnlyRecycling /\ RvPop
    \/ OnlyRecycling /\ \E i \in RvIndices : RvSwapRemove(i)
    \/ OnlyRecycling /\ RvClear
    \/ OnlyRecycling /\ \E i \in RvIndices : RvIndexMut(i)
    \/ OnlyHashMap /\ \E key \in Keys, ctor \in Ctors, init \in Inits :
                          HmInsert(key, ctor, init)
    \/ OnlyHashMap /\ \E key \in Keys : HmRemove(key)
    \/ OnlyHashMap /\ HmClear
    \/ OnlyHashMap /\ \E key \in Keys, ctor \in Ctors, init \in Inits :
                          HmOrInsert(key, ctor, init)
    \/ OnlyHashMap /\ \E key \in Keys : HmGetMut(key)

SpecPool == Init /\ [][NextPool]_vars

\* a RecyclingVec of RecyclingVecs: up to OuterN inner vectors of up to
\* InnerN children
SpecNested == Init /\ [][NextNested]_vars

\* ================================================================ claims
\* the indices that are live for the caller: returned by insert, and not
\* removed since
Live == DOMAIN live

\* C1: handles are stable.  For every index that insert returned and remove
\* has not taken back, get returns the value passed to that insert, or the
\* value last written through get_mut, whatever else was inserted or removed.
C1_StableHandles ==
    \A i \in Live : get(self, i) = Some(live[i])

\* C2: an index is contained right after the insert that returned it, and is
\* not contained right after the remove of it.
C2_ContainsFollowsInsertRemove ==
    /\ last.op = "insert" => contains(self, last.n)
    /\ (last.op = "remove" /\ last.n \in DOMAIN last.preLive /\ ~panicked)
           => ~contains(self, last.n)

Range(q) == {q[k] : k \in 1..Len(q)}

\* C3: remove of an index that was removed and not handed out again returns
\* None, does not panic, and leaves len and the value of every other live
\* index as they were.
C3_RemoveRemovedIsNoop ==
    (last.op = "remove" /\ last.n \in Range(last.preFreed))
        => /\ ~panicked
           /\ last.ret = None
           /\ len(self) = len(last.pre)
           /\ \A i \in DOMAIN last.preLive \ {last.n} :
                  get(self, i) = get(last.pre, i)

\* C4: get and get_mut return None for every index that is not live: never
\* allocated, or removed and not handed out again.
C4_AbsentIndexYieldsNone ==
    \A n \in Indices \ Live :
        get(self, n) = None /\ get_mut(self, n) = None

\* C5: insert reuses the freed indices last in, first out.  With a free index
\* available it returns the most recently removed index not handed out again
\* and positions does not grow; only with none available it returns a fresh
\* index, the former length of positions.
C5_InsertReusesLifo ==
    last.op = "insert" =>
        IF last.pre.free_indices # <<>>
        THEN /\ last.preFreed # <<>>
             /\ last.n = vec_last(last.preFreed)
             /\ Len(positions) = Len(last.pre.positions)
        ELSE /\ last.n = Len(last.pre.positions)
             /\ Len(positions) = Len(last.pre.positions) + 1

\* C6: len is the number of inserts minus the number of removes that returned
\* a value, is the number of indices contained, and is at most the length of
\* positions.
C6_LenCounts ==
    /\ len(self) = net
    /\ len(self) = Cardinality({n \in Indices : contains(self, n)})
    /\ len(self) <= Len(positions)

\* C7: round trip.  i = insert(v) followed at once by remove(i) returns
\* Some(v), leaves len as it was before the insert, and leaves every index
\* that was live before mapped to the value it had.
C7_InsertRemoveRoundTrip ==
    (last.op = "remove" /\ last.rt # <<>>)
        => LET before == last.rt[1]
           IN  /\ ~panicked
               /\ last.ret = Some(before.v)
               /\ len(self) = len(before.pre)
               /\ \A i \in DOMAIN before.preLive :
                      get(self, i) = get(before.pre, i)

\* C8: remove of an index that was never allocated (at or beyond the length
\* of positions) returns None and leaves data, positions and free_indices as
\* they were.
C8_RemoveUnallocatedIsNoop ==
    (last.op = "remove" /\ last.n >= Len(last.pre.positions))
        => /\ ~panicked
           /\ last.ret = None
           /\ self = last.pre

\* a remove of a never allocated index, on a store that holds an element and
\* a freed index
C8_Witness ==
    /\ last.op = "remove"
    /\ last.n >= Len(last.pre.positions)
    /\ last.pre.data # <<>>
    /\ last.pre.free_indices # <<>>
    /\ last.ret = None

\* C9: store[n] yields the element get(n) and get_mut(n) yield when n is
\* live, and panics exactly when n is absent.
C9_IndexPanicsExactlyWhenAbsent ==
    \A n \in Indices :
        /\ index(self, n).panic <=> n \notin Live
        /\ \A v \in Values : index_mut(self, n, v).panic <=> n \notin Live
        /\ n \in Live =>
               /\ index(self, n).ret = get(self, n)
               /\ index(self, n).ret = get_mut(self, n)
               /\ index(self, n).ret = Some(live[n])

\* C10: keys, values and items each yield exactly the live elements, one per
\* live index, in the order of data: the k-th key is the index of the k-th
\* value.
C10_IterationOverLiveInDataOrder ==
    /\ Len(keys(self)) = Cardinality(Live)
    /\ Len(values(self)) = Cardinality(Live)
    /\ Len(items(self)) = Cardinality(Live)
    /\ Range(keys(self)) = Live
    /\ \A k \in 1..Len(keys(self)) :
           /\ position(self, keys(self)[k]) = Some(k - 1)
           /\ values(self)[k] = live[keys(self)[k]]
           /\ items(self)[k] = <<keys(self)[k], values(self)[k]>>

\* the indices that k inserts in a row return from store s, and the store
\* they leave
RECURSIVE InsertRun(_, _)
InsertRun(s, k) ==
    IF k = 0
    THEN [s |-> s, rets |-> <<>>]
    ELSE LET before == InsertRun(s, k - 1)
             r      == insert(before.s, 1)
         IN  [s |-> r.s, rets |-> Append(before.rets, r.ret)]

\* C11: after clear, len is 0, no index issued before is contained, and the
\* store is in the state of a new one: the inserts that follow return 0, 1,
\* 2, ... and each index returned is contained.
C11_ClearRestoresNew ==
    last.op = "clear" =>
        /\ len(self) = 0
        /\ \A n \in Indices : ~contains(self, n)
        /\ self = default
        /\ \A k \in 1..cap :
               /\ InsertRun(self, k).rets = [j \in 1..k |-> j - 1]
               /\ \A j \in 0..(k - 1) : contains(InsertRun(self, k).s, j)

\* a clear of a store that held elements and freed indices
C11_Witness ==
    /\ last.op = "clear"
    /\ last.pre.data # <<>>
    /\ last.pre.free_indices # <<>>
    /\ self = default

\* what C12 asks of a remove(n) on one set: s is the set after the call, out
\* what the call returned, before the indices live before it with their
\* values
RemoveAsDocumented(s, out, n, before) ==
    /\ ~out.panic
    /\ out.ret = Some(n \in DOMAIN before)
    /\ out.ret = Some(TRUE) =>
           /\ ~set_contains(s, n)
           /\ \E i \in 1..Len(vl_iter(s.free_indices)) :
                  vl_iter(s.free_indices)[i] = n
           /\ \A m \in DOMAIN before \ {n} : set_get(s, m) = Some(before[m])

\* C12: remove(n) on a GenericSparseSet returns true exactly when n is live;
\* after a true result n is not contained and is free for reuse, and every
\* other live index keeps its value; this for every live n, the one stored
\* at the last position of data included, and without a panic.
C12_RemoveTakesLiveIndex ==
    setOut.op = "remove" /\ ~setOut.pre[1].dynamicDead =>
            /\ RemoveAsDocumented(dynamic, setOut.dyn, setOut.n,
                                  setOut.pre[1].live)
            /\ RemoveAsDocumented(static, setOut.sta, setOut.n,
                                  setOut.pre[1].live)

\* C13: as long as at most SetN public indices have been allocated, the
\* StaticSparseSet and the SparseSet return the same results to the same
\* insert, remove, contains, get and get_mut calls: same indices, same
\* booleans, same values, same panics.
C13_StaticIsDropIn ==
    /\ setOut.op \in {"insert", "remove", "contains", "get", "get_mut"}
    /\ vl_len(dynamic.positions) <= SetN
    => setOut.dyn = setOut.sta

\* a push onto the StaticVec c, when it is full, panics and leaves c as it was
FullRefusesPush(c, x) ==
    sv_len(c) = Len(c.arr) =>
        /\ sv_push(c, x).panic
        /\ sv_push(c, x).c = c

\* C14: a push onto a StaticVec that holds N elements panics, and neither
\* overwrites nor drops an element; so an insert into a StaticSparseSet that
\* holds N live elements panics and leaves every element as it was.
C14_FullStaticSetRefusesInsert ==
    /\ \A v \in Values :
           /\ FullRefusesPush(static.data, <<0, v>>)
           /\ FullRefusesPush(static.positions, Some(v))
           /\ FullRefusesPush(static.free_indices, v)
    /\ /\ setOut.op = "insert"
       /\ set_len(setOut.pre[1].static) = SetN
       => /\ setOut.sta.panic
          /\ static = setOut.pre[1].static

\* an insert into a static set of SetN live elements, whose data is full
C14_Witness ==
    /\ setOut.op = "insert"
    /\ ~setOut.pre[1].dynamicDead
    /\ Cardinality(DOMAIN setOut.pre[1].live) = SetN
    /\ sv_len(setOut.pre[1].static.data) = SetN
    /\ setOut.sta.panic

\* C15: while only push and pop have changed a StaticVec, within its
\* capacity, pop returns the value pushed last and not yet popped, pop on an
\* empty StaticVec returns None, len() is pushes minus successful pops, and
\* iter() yields the first len() elements in the order they were pushed.
C15_StaticVecIsLifo ==
    pushed.plain =>
        /\ vecOut.op = "pop" =>
               vecOut.sta.ret = IF vecOut.pre = <<>> THEN None
                                ELSE Some(vec_last(vecOut.pre))
        /\ sv_len(staticvec) = pushed.net
        /\ Len(sv_iter(staticvec)) = sv_len(staticvec)
        /\ sv_iter(staticvec) = pushed.stack

\* a pop that returns the later of two different values pushed
C15_Witness ==
    /\ pushed.plain
    /\ vecOut.op = "pop"
    /\ Len(vecOut.pre) = 2
    /\ vecOut.pre[1] # vecOut.pre[2]
    /\ vecOut.sta.ret = Some(vecOut.pre[2])
    /\ sv_iter(staticvec) = <<vecOut.pre[1]>>

\* C16: push(ctor, init) with a non-empty dead pool pops one pooled element,
\* applies init to it, does not call ctor, and makes it the last live
\* element; with an empty pool it calls ctor, does not apply init, and makes
\* the constructed value the last live element.  Either way len() grows by
\* one and the live elements before it are unchanged.
C16_PushRecyclesOrConstructs ==
    rvOut.op \in {"push", "push_default"} =>
        /\ IF rvOut.pre.dead # <<>>
           THEN /\ rvOut.init_called /\ ~rvOut.ctor_called
                /\ recycling.dead = vec_pop(rvOut.pre.dead)
                /\ vec_last(recycling.vec)
                       = Initialize(rvOut.args.init, vec_last(rvOut.pre.dead))
           ELSE /\ rvOut.ctor_called /\ ~rvOut.init_called
                /\ recycling.dead = rvOut.pre.dead
                /\ vec_last(recycling.vec) = Construct(rvOut.args.ctor, made)
                /\ \A k \in 1..Len(rvOut.pre.vec) : rvOut.pre.vec[k].id # made
        /\ Len(recycling.vec) = Len(rvOut.pre.vec) + 1
        /\ SubSeq(recycling.vec, 1, Len(rvOut.pre.vec)) = rvOut.pre.vec
        /\ rvOut.ret = Some(vec_last(recycling.vec))

\* a push that recycles with an initializer that writes, beside a live
\* element
C16_Witness ==
    /\ rvOut.op = "push"
    /\ rvOut.pre.dead # <<>>
    /\ rvOut.pre.vec # <<>>
    /\ rvOut.args.init = "push"
    /\ rvOut.args.ctor > 0
    /\ vec_last(recycling.vec).len = 1
    /\ vec_last(recycling.vec).id = vec_last(rvOut.pre.dead).id

\* C17: pop() on a non-empty vector removes the last live element, calls
\* clear() on it then, and parks it in the dead pool: len() is one less, dead
\* one more.  On an empty vector it changes neither vec nor dead.
C17_PopClearsAndParks ==
    rvOut.op = "pop" =>
        IF rvOut.pre.vec # <<>>
        THEN /\ recycling.vec = vec_pop(rvOut.pre.vec)
             /\ Len(recycling.vec) = Len(rvOut.pre.vec) - 1
             /\ rvOut.cleared = <<vec_last(rvOut.pre.vec).id>>
             /\ recycling.dead
                    = Append(rvOut.pre.dead, el_clear(vec_last(rvOut.pre.vec)))
             /\ Len(recycling.dead) = Len(rvOut.pre.dead) + 1
             /\ vec_last(recycling.dead).len = 0
        ELSE /\ recycling = rvOut.pre
             /\ rvOut.cleared = <<>>

\* a pop of an element that holds an item
C17_Witness ==
    /\ rvOut.op = "pop"
    /\ rvOut.pre.vec # <<>>
    /\ vec_last(rvOut.pre.vec).len > 0
    /\ vec_last(recycling.dead).id = vec_last(rvOut.pre.vec).id
    /\ vec_last(recycling.dead).len = 0

\* C18: the push or push_default that follows a pop returns the very element
\* that was popped, reset and with only init applied: its length is 0 (before
\* init) and its capacity at least what it was before the pop.
C18_PushAfterPopReuses ==
    rvOut.op \in {"push", "push_default"} /\ rvOut.popped # <<>> =>
        /\ unwrap(rvOut.ret).id = rvOut.popped[1].id
        /\ ~rvOut.ctor_called
        /\ rvOut.init_called
        /\ unwrap(rvOut.ret).len = IF rvOut.args.init = "push" THEN 1 ELSE 0
        /\ unwrap(rvOut.ret).capacity >= rvOut.popped[1].capacity

\* a push_default gets back the element, of some capacity and holding an
\* item, that the pop before it has parked on a pool that held one already
C18_Witness ==
    /\ rvOut.op = "push_default"
    /\ rvOut.popped # <<>>
    /\ rvOut.popped[1].len > 0
    /\ rvOut.popped[1].capacity > 0
    /\ Len(rvOut.pre.dead) = 2
    /\ unwrap(rvOut.ret).id = rvOut.popped[1].id
    /\ unwrap(rvOut.ret).len = 0

\* C19: push_recycled(init) never constructs: with an empty dead pool it
\* returns None, leaves vec and dead unchanged and does not call init;
\* otherwise it pops one pooled element, applies init, appends it to vec and
\* returns a reference to it.
C19_PushRecycledNeverConstructs ==
    rvOut.op = "push_recycled" =>
        /\ ~rvOut.ctor_called
        /\ IF rvOut.pre.dead = <<>>
           THEN /\ rvOut.ret = None
                /\ recycling = rvOut.pre
                /\ ~rvOut.init_called
           ELSE /\ rvOut.init_called
                /\ recycling.dead = vec_pop(rvOut.pre.dead)
                /\ recycling.vec
                       = Append(rvOut.pre.vec,
                                Initialize(rvOut.args.init,
                                           vec_last(rvOut.pre.dead)))
                /\ rvOut.ret = Some(vec_last(recycling.vec))

\* a push_recycled hands out a pooled element with the initializer's item
C19_Witness ==
    /\ rvOut.op = "push_recycled"
    /\ rvOut.pre.dead # <<>>
    /\ rvOut.args.init = "push"
    /\ unwrap(rvOut.ret).id = vec_last(rvOut.pre.dead).id
    /\ unwrap(rvOut.ret).len = 1

\* C20: swap_remove(i) with i < len() clears the element at i and parks it
\* in the dead pool, leaves the former last live element at position i and
\* every other position as it was, and len() one less; with i >= len() it
\* panics and changes neither vec nor dead.
C20_SwapRemove ==
    rvOut.op = "swap_remove" =>
        IF rvOut.args.i < Len(rvOut.pre.vec)
        THEN /\ ~rvOut.panic
             /\ Len(recycling.vec) = Len(rvOut.pre.vec) - 1
             /\ recycling.dead
                    = Append(rvOut.pre.dead,
                             el_clear(At(rvOut.pre.vec, rvOut.args.i)))
             /\ rvOut.cleared = <<At(rvOut.pre.vec, rvOut.args.i).id>>
             /\ \A k \in 0..(Len(recycling.vec) - 1) :
                    At(recycling.vec, k)
                        = IF k = rvOut.args.i THEN vec_last(rvOut.pre.vec)
                          ELSE At(rvOut.pre.vec, k)
        ELSE /\ rvOut.panic
             /\ recycling = rvOut.pre

\* a swap_remove of the first of two live elements
C20_Witness ==
    /\ rvOut.op = "swap_remove"
    /\ rvOut.args.i = 0
    /\ Len(rvOut.pre.vec) = 2
    /\ ~rvOut.panic
    /\ At(recycling.vec, 0) = At(rvOut.pre.vec, 1)
    /\ vec_last(recycling.dead).id = At(rvOut.pre.vec, 0).id


\* the elements of q, in order, as a caller comparing with == sees them: the
\* items of an element are all 0, so that its length is its content
Contents(q) == [k \in 1..Len(q) |-> q[k].len]

\* C21: RecyclingVec::clear() resets and parks every live element.  After
\* it len() is 0, the dead pool is the one before followed by the elements
\* that were live, each of them emptied by clear() with its allocation kept,
\* so that the pool has grown by the previous len() and no element is
\* dropped; clear() has been called on each of them.
C21_ClearParksEveryElement ==
    rvOut.op = "clear" =>
        /\ Len(recycling.vec) = 0
        /\ Len(recycling.dead) = Len(rvOut.pre.dead) + Len(rvOut.pre.vec)
        /\ SubSeq(recycling.dead, 1, Len(rvOut.pre.dead)) = rvOut.pre.dead
        /\ Len(rvOut.cleared) = Len(rvOut.pre.vec)
        /\ \A k \in 1..Len(rvOut.pre.vec) :
               LET parked == recycling.dead[Len(rvOut.pre.dead) + k]
               IN  /\ parked.id = rvOut.pre.vec[k].id
                   /\ parked.len = 0
                   /\ parked.capacity = rvOut.pre.vec[k].capacity
                   /\ rvOut.cleared[k] = parked.id

\* a clear of two live elements, one of them with items
C21_Witness ==
    /\ rvOut.op = "clear"
    /\ Len(rvOut.pre.vec) >= 2
    /\ \E k \in 1..Len(rvOut.pre.vec) : rvOut.pre.vec[k].len > 0

\* C22: the clone of a RecyclingVec has the live elements of the original,
\* equal and in the same order, and an empty dead pool; the call leaves the
\* original's vec and dead pool as they were.
C22_CloneTakesLiveElementsOnly ==
    rvOut.op = "clone" =>
        /\ Contents(unwrap(rvOut.ret).vec) = Contents(rvOut.pre.vec)
        /\ unwrap(rvOut.ret).dead = <<>>
        /\ recycling = rvOut.pre

\* a clone of a vector with a live element that has items, and a dead pool
\* that is not empty
C22_Witness ==
    /\ rvOut.op = "clone"
    /\ recycling.vec # <<>>
    /\ recycling.vec[1].len > 0
    /\ recycling.dead # <<>>

\* the entries of every key but one are as they were before the last call
OtherEntriesKept(key) ==
    /\ DOMAIN hashmap.map \ {key} = DOMAIN hmOut.pre.map \ {key}
    /\ \A k \in DOMAIN hashmap.map \ {key} :
           hashmap.map[k] = hmOut.pre.map[k]

\* C23: RecyclingHashMap::insert(key, ctor, init) on a key that has an entry
\* resets the value in place: clear() and then init are called on it, ctor
\* is not called, the value is returned, the dead pool and len() are as
\* before, and what the value held is lost.
C23_InsertResetsPresentValue ==
    (hmOut.op = "insert" /\ hmOut.key \in DOMAIN hmOut.pre.map) =>
        LET old == hmOut.pre.map[hmOut.key]
        IN  /\ ~hmOut.ctor_called
            /\ hmOut.init_called
            /\ hmOut.cleared = <<old>>
            /\ hashmap.map[hmOut.key] =
                   Initialize(hmOut.init, Element(old.id, 0, old.capacity))
            /\ hmOut.ret = Some(hashmap.map[hmOut.key])
            /\ hashmap.dead = hmOut.pre.dead
            /\ hm_len(hashmap) = hm_len(hmOut.pre)
            /\ OtherEntriesKept(hmOut.key)

\* an insert with an initializer that does nothing, on a key whose value has
\* items, with a dead pool that is not empty: the value is left empty
C23_Witness ==
    /\ hmOut.op = "insert"
    /\ hmOut.key \in DOMAIN hmOut.pre.map
    /\ hmOut.pre.map[hmOut.key].len > 0
    /\ hmOut.init = "nothing"
    /\ hmOut.pre.dead # <<>>
    /\ hashmap.map[hmOut.key].len = 0

\* C24: RecyclingHashMap::insert(key, ctor, init) on a key that has no
\* entry.  If the dead pool is not empty, its last value is popped, init is
\* applied to it, ctor is not called and the value is stored at key; if the
\* pool is empty, ctor is called, init is not, and the value constructed is
\* stored at key.  In both cases len() grows by one.  insert_default does
\* not call the default constructor when the pool has a value or the key
\* has an entry.
C24_InsertAbsentRecyclesOrConstructs ==
    /\ (hmOut.op \in {"insert", "insert_default"}
            /\ hmOut.key \notin DOMAIN hmOut.pre.map) =>
           /\ hm_len(hashmap) = hm_len(hmOut.pre) + 1
           /\ hmOut.key \in DOMAIN hashmap.map
           /\ hmOut.ret = Some(hashmap.map[hmOut.key])
           /\ hmOut.cleared = <<>>
           /\ OtherEntriesKept(hmOut.key)
           /\ IF hmOut.pre.dead # <<>>
              THEN /\ ~hmOut.ctor_called
                   /\ hmOut.init_called
                   /\ hashmap.map[hmOut.key] =
                          Initialize(hmOut.init, vec_last(hmOut.pre.dead))
                   /\ hashmap.dead = vec_pop(hmOut.pre.dead)
              ELSE /\ hmOut.ctor_called
                   /\ ~hmOut.init_called
                   /\ hashmap.map[hmOut.key] = Construct(hmOut.ctor, 0)
                   /\ hashmap.dead = <<>>
    /\ (hmOut.op = "insert_default"
            /\ (hmOut.pre.dead # <<>> \/ hmOut.key \in DOMAIN hmOut.pre.map))
           => ~hmOut.ctor_called

\* an insert_default on a key without an entry that takes a value from a
\* pool of two
C24_Witness ==
    /\ hmOut.op = "insert_default"
    /\ hmOut.key \notin DOMAIN hmOut.pre.map
    /\ Len(hmOut.pre.dead) >= 2
    /\ ~hmOut.ctor_called

\* C25: RecyclingHashMap::remove(key).  If the key has an entry, its value
\* is taken out of the map, clear() is called on it and it is pushed onto
\* the dead pool: len() decreases by one, the pool grows by one, and the key
\* has no entry afterwards.  If the key has no entry, the map and the pool
\* are as before.
C25_RemoveClearsAndParks ==
    hmOut.op = "remove" =>
        IF hmOut.key \in DOMAIN hmOut.pre.map
        THEN LET old == hmOut.pre.map[hmOut.key]
             IN  /\ hmOut.cleared = <<old>>
                 /\ hashmap.dead =
                        Append(hmOut.pre.dead,
                               Element(old.id, 0, old.capacity))
                 /\ hm_len(hashmap) = hm_len(hmOut.pre) - 1
                 /\ ~hm_contains_key(hashmap, hmOut.key)
                 /\ hm_get(hashmap, hmOut.key) = None
                 /\ OtherEntriesKept(hmOut.key)
        ELSE /\ hashmap = hmOut.pre
             /\ hmOut.cleared = <<>>

\* a remove of a key whose value has items, next to an entry of another key
C25_Witness ==
    /\ hmOut.op = "remove"
    /\ hmOut.key \in DOMAIN hmOut.pre.map
    /\ hmOut.pre.map[hmOut.key].len > 0
    /\ hm_len(hmOut.pre) >= 2

\* C26: RecyclingHashMap::entry(key).or_insert(ctor, init), and
\* or_insert_default.  On an occupied entry the value is returned as it is:
\* no clear, no init, no ctor, the map and the pool as before.  On a vacant
\* entry the value comes from the dead pool if it has one, with init applied
\* and ctor not called; ctor is called only for an empty pool, and init is
\* not applied then.  entry() alone changes neither the map nor the pool.
C26_OrInsert ==
    /\ (hmOut.op \in {"or_insert", "or_insert_default"}
            /\ hmOut.key \in DOMAIN hmOut.pre.map) =>
           /\ hmOut.entry = "Occupied"
           /\ hashmap = hmOut.pre
           /\ hmOut.ret = Some(hmOut.pre.map[hmOut.key])
           /\ ~hmOut.ctor_called
           /\ ~hmOut.init_called
           /\ hmOut.cleared = <<>>
    /\ (hmOut.op \in {"or_insert", "or_insert_default"}
            /\ hmOut.key \notin DOMAIN hmOut.pre.map) =>
           /\ hmOut.entry = "Vacant"
           /\ hmOut.ret = Some(hashmap.map[hmOut.key])
           /\ hmOut.cleared = <<>>
           /\ OtherEntriesKept(hmOut.key)
           /\ IF hmOut.pre.dead # <<>>
              THEN /\ ~hmOut.ctor_called
                   /\ hmOut.init_called
                   /\ hashmap.map[hmOut.key] =
                          Initialize(hmOut.init, vec_last(hmOut.pre.dead))
                   /\ hashmap.dead = vec_pop(hmOut.pre.dead)
              ELSE /\ hmOut.ctor_called
                   /\ ~hmOut.init_called
                   /\ hashmap.map[hmOut.key] = Construct(hmOut.ctor, 0)
                   /\ hashmap.dead = <<>>
    /\ hmOut.op = "entry" => hashmap = hmOut.pre

\* an or_insert on a key whose value has items, with a pool that is not
\* empty
C26_Witness ==
    /\ hmOut.op = "or_insert"
    /\ hmOut.key \in DOMAIN hmOut.pre.map
    /\ hmOut.pre.map[hmOut.key].len > 0
    /\ hmOut.pre.dead # <<>>

\* C27: RecyclingHashMap::clear() calls clear() on every live value and
\* parks it: afterwards len() is 0, no key has an entry, and the dead pool
\* is the one before followed by the values that were live, each once and
\* emptied, in some order, so that it has grown by the previous len().
C27_ClearParksEveryValue ==
    hmOut.op = "clear" =>
        LET n == Len(hmOut.pre.dead)
            parked == SubSeq(hashmap.dead, n + 1, Len(hashmap.dead))
        IN  /\ hm_len(hashmap) = 0
            /\ \A key \in Keys : hm_get(hashmap, key) = None
            /\ Len(hashmap.dead) = n + hm_len(hmOut.pre)
            /\ SubSeq(hashmap.dead, 1, n) = hmOut.pre.dead
            /\ \E order \in Orders(hmOut.pre.map) :
                   /\ hmOut.cleared =
                          [k \in 1..Len(order) |-> hmOut.pre.map[order[k]]]
                   /\ parked =
                          [k \in 1..Len(order) |->
                               Element(hmOut.cleared[k].id, 0,
                                       hmOut.cleared[k].capacity)]

\* a clear of a map of two values, one of them with items
C27_Witness ==
    /\ hmOut.op = "clear"
    /\ hm_len(hmOut.pre) >= 2
    /\ \E k \in DOMAIN hmOut.pre.map : hmOut.pre.map[k].len > 0

\* what a map holds for a key, by the history of the calls
Held(h, key) == IF key \in DOMAIN h THEN Some(h[key]) ELSE None

\* C29: StringMap behaves as a map.  insert of a new key returns None and
\* adds one entry; insert of a key that is in the map returns the value it
\* had, replaces it and leaves len() as it was; get returns the value last
\* inserted (or written through get_mut) for a key, and None for a key that
\* was never inserted or was removed; remove returns the value of the key,
\* or None, and get of the key is None after it.
C29_StringMapIsAMap ==
    /\ smOut.op = "insert" =>
           /\ smOut.ret = Held(smOut.preLive, smOut.key)
           /\ sm_len(stringmap) =
                  IF smOut.key \in DOMAIN smOut.preLive
                  THEN sm_len(smOut.pre) ELSE sm_len(smOut.pre) + 1
    /\ smOut.op = "remove" =>
           /\ smOut.ret = Held(smOut.preLive, smOut.key)
           /\ sm_get(stringmap, smOut.key) = None
    /\ \A key \in StrKeys : sm_get(stringmap, key) = Held(smLive, key)
    /\ smOut.op = "get" => smOut.ret = Held(smLive, smOut.key)

\* an insert that replaces the value of a key in a map of three keys, the
\* key between the two others
C29_Witness ==
    /\ smOut.op = "insert"
    /\ smOut.key \in DOMAIN smOut.preLive
    /\ smOut.preLive[smOut.key] # smLive[smOut.key]
    /\ sm_len(stringmap) >= 3
    /\ sm_keys(stringmap)[2] = smOut.key

\* C30: free_indices and the live indices partition 0..positions.len().
\* Every index of positions is either live (its entry is not EMPTY_INDEX) or
\* in free_indices, never both, and free_indices holds no index twice.
C30_FreeAndLivePartition ==
    ~panicked =>
        /\ \A i \in 0..(Len(positions) - 1) :
               (At(positions, i) # EMPTY_INDEX) # (i \in Range(free_indices))
        /\ \A j, k \in 1..Len(free_indices) :
               free_indices[j] = free_indices[k] => j = k

\* clear() called again right after a clear() leaves the container as the
\* first call left it, and calls clear() on no element
ClearTwiceIsClearOnce ==
    /\ rvOut.op = "clear" =>
           /\ rv_clear(recycling).s = recycling
           /\ rv_clear(recycling).cleared = <<>>
    /\ hmOut.op = "clear" =>
           \A order \in Orders(hashmap.map) :
               /\ hm_clear(hashmap, order).s = hashmap
               /\ hm_clear(hashmap, order).cleared = <<>>
    /\ last.op = "clear" => clear(self) = self

\* clear() on a RecyclingVec or a RecyclingHashMap with len() 0 is a no-op:
\* len() is 0 after it, clear() is called on no element, and the dead pool
\* is as before
ClearOfEmptyRecyclingIsNoop ==
    /\ (rvOut.op = "clear" /\ Len(rvOut.pre.vec) = 0) =>
           /\ Len(recycling.vec) = 0
           /\ rvOut.cleared = <<>>
           /\ recycling.dead = rvOut.pre.dead
    /\ (hmOut.op = "clear" /\ hm_len(hmOut.pre) = 0) =>
           /\ hm_len(hashmap) = 0
           /\ hmOut.cleared = <<>>
           /\ hashmap.dead = hmOut.pre.dead

\* C28: clear is idempotent.  clear() on a RecyclingVec, a RecyclingHashMap
\* or a SparseVec with len() 0 is a no-op: len() is 0 before and after, no
\* element's clear() is called, and the dead pool, or the stack of free
\* indices, is as before; clear() twice in a row leaves the state that one
\* clear() leaves.
C28_ClearIsIdempotent ==
    /\ ClearOfEmptyRecyclingIsNoop
    /\ (last.op = "clear" /\ len(last.pre) = 0) =>
           /\ len(self) = 0
           /\ free_indices = last.pre.free_indices
    /\ ClearTwiceIsClearOnce

\* C28, amended: as C28 for the RecyclingVec and the RecyclingHashMap, and
\* for clear() twice in a row.  clear() on a SparseVec with len() 0 leaves
\* len() 0 and leaves the store as new: the stack of free indices and
\* positions are emptied, whatever they held.
C28_ClearIsIdempotent_Amended ==
    /\ ClearOfEmptyRecyclingIsNoop
    /\ (last.op = "clear" /\ len(last.pre) = 0) =>
           /\ len(self) = 0
           /\ self = default
    /\ ClearTwiceIsClearOnce

\* a clear() of a SparseVec that remove has emptied, with indices on the
\* stack of free indices
C28_Witness ==
    /\ last.op = "clear"
    /\ len(last.pre) = 0
    /\ last.pre.free_indices # <<>>
    /\ free_indices = <<>>

\* C31: contains(n) and get(n).is_some() agree for every n, and the entries
\* of positions that are not EMPTY_INDEX are pairwise distinct and all
\* smaller than data.len(): positions, restricted to the indices that have
\* one, is a bijection onto 0..data.len().
C31_PositionsAreABijection ==
    ~panicked =>
        LET held == {i \in 0..(Len(positions) - 1) :
                         At(positions, i) # EMPTY_INDEX}
        IN  /\ \A n \in Indices : contains(self, n) = is_some(get(self, n))
            /\ \A i \in held : At(positions, i) < Len(data)
            /\ \A i, j \in held : At(positions, i) = At(positions, j) => i = j
            /\ \A p \in 0..(Len(data) - 1) :
                   \E i \in held : At(positions, i) = p

\* C32: remove of a live index whose element is at position p of data moves
\* the former last element of data to position p and keeps every other
\* element at its position; the slice has len() elements; the element that
\* was moved is where its own public index points.
C32_RemoveMovesLastIntoGap ==
    (last.op = "remove" /\ ~panicked /\ last.n \in DOMAIN last.preLive
         /\ position(last.pre, last.n) # None
         /\ unwrap(position(last.pre, last.n)) < Len(last.pre.data)) =>
        LET p == unwrap(position(last.pre, last.n))
            end == Len(last.pre.data) - 1
        IN  /\ data = vec_swap_remove(last.pre.data, p)
            /\ Len(data) = len(self)
            /\ \A m \in DOMAIN last.preLive \ {last.n} :
                   position(last.pre, m) = Some(end) =>
                       position(self, m) = Some(IF p = end THEN end ELSE p)

\* positions and data of a set agree: every index i with positions[i] =
\* Some(p) has p < data.len() and data[p].0 = i, and every entry (i, v) at
\* position p of data has positions[i] = Some(p)
PositionsMatchData(s) ==
    /\ \A i \in 0..(vl_len(s.positions) - 1) :
           vl_index(s.positions, i).ret # Some(None) =>
               LET p == unwrap(unwrap(vl_index(s.positions, i).ret))
               IN  /\ p < vl_len(s.data)
                   /\ At(vl_iter(s.data), p)[1] = i
    /\ \A p \in 0..(vl_len(s.data) - 1) :
           LET i == At(vl_iter(s.data), p)[1]
           IN  /\ i < vl_len(s.positions)
               /\ vl_index(s.positions, i).ret = Some(Some(p))

\* C33: in every reachable state of a GenericSparseSet, with the dynamic or
\* the static backing, positions and data agree: positions[i] = Some(p)
\* exactly when the entry at position p of data is (i, v).
C33_SetPositionsMatchData ==
    /\ ~dynamicDead => PositionsMatchData(dynamic)
    /\ ~staticDead => PositionsMatchData(static)
\* C34: StaticVec and Vec behave alike: every call of push, pop,
\* swap_remove, len, iter, get, get_mut and indexing made on both, with at
\* most VecN elements held, returns the same result in both or fails in
\* both; so get(n) is None and indexing fails in the StaticVec wherever they
\* do in the Vec, that is for every n >= len().
C34_StaticVecBehavesAsVec == vecOut.sta = vecOut.vec
C36_NoElementIsReleased ==
    /\ RvOwned(recycling) = made
    /\ rvOut.op # "new" =>
           /\ RvOwned(recycling) =
                  RvOwned(rvOut.pre) + IF rvOut.ctor_called THEN 1 ELSE 0
           /\ rvOut.ctor_called =>
                  /\ rvOut.op \in {"push", "push_default"}
                  /\ rvOut.pre.dead = <<>>
    /\ hmOut.op \notin {"new", "and_modify", "get_mut", "index"} =>
           /\ HmOwned(hashmap) =
                  HmOwned(hmOut.pre) + IF hmOut.ctor_called THEN 1 ELSE 0
           /\ hmOut.ctor_called =>
                  /\ hmOut.op \in {"insert", "insert_default", "or_insert",
                                   "or_insert_default"}
                  /\ hmOut.pre.dead = <<>>
                  /\ hmOut.key \notin DOMAIN hmOut.pre.map

\* a swap_remove of the first of two live elements: two elements are owned
\* before and after it, one of them pooled now
C36_Witness ==
    /\ rvOut.op = "swap_remove"
    /\ ~rvOut.panic
    /\ rvOut.args.i = 0
    /\ Len(rvOut.pre.vec) = 2
    /\ Len(recycling.vec) = 1
    /\ RvOwned(recycling) = 2
    /\ Len(recycling.dead) = 1
\* the elements of a vector, cleared
Cleared(q) == [k \in 1..Len(q) |-> el_clear(q[k])]

\* C37: a removal calls clear() once on each element it removes, and the
\* pool receives the element cleared: pop on the last element, swap_remove
\* on the element at its position, clear on every live element, remove on
\* the value of the key.  A call that takes an element out of the pool
\* (push, push_recycled, insert on a key without a value, or_insert) calls
\* no clear(); insert on a key that has a value calls clear() on that value
\* once and init after it, so the value is init applied to the cleared value.
C37_ClearOnceAtRemoval ==
    /\ rvOut.op = "pop" =>
           IF rvOut.pre.vec = <<>>
           THEN /\ rvOut.cleared = <<>>
                /\ recycling.dead = rvOut.pre.dead
           ELSE /\ rvOut.cleared = <<vec_last(rvOut.pre.vec).id>>
                /\ recycling.dead =
                       Append(rvOut.pre.dead,
                              el_clear(vec_last(rvOut.pre.vec)))
    /\ (rvOut.op = "swap_remove" /\ ~rvOut.panic) =>
           /\ rvOut.cleared = <<At(rvOut.pre.vec, rvOut.args.i).id>>
           /\ recycling.dead =
                  Append(rvOut.pre.dead,
                         el_clear(At(rvOut.pre.vec, rvOut.args.i)))
    /\ rvOut.op = "clear" =>
           /\ rvOut.cleared =
                  [k \in 1..Len(rvOut.pre.vec) |-> rvOut.pre.vec[k].id]
           /\ recycling.dead = rvOut.pre.dead \o Cleared(rvOut.pre.vec)
    /\ rvOut.op \in {"push", "push_default", "push_recycled"} =>
           rvOut.cleared = <<>>
    /\ hmOut.op = "remove" =>
           IF hmOut.key \in DOMAIN hmOut.pre.map
           THEN /\ hmOut.cleared = <<hmOut.pre.map[hmOut.key]>>
                /\ hashmap.dead = hmOut.pre.dead \o Cleared(hmOut.cleared)
           ELSE /\ hmOut.cleared = <<>>
                /\ hashmap.dead = hmOut.pre.dead
    /\ hmOut.op = "clear" =>
           /\ \E order \in Orders(hmOut.pre.map) :
                  hmOut.cleared =
                      [k \in 1..Len(order) |-> hmOut.pre.map[order[k]]]
           /\ hashmap.dead = hmOut.pre.dead \o Cleared(hmOut.cleared)
    /\ hmOut.op \in {"or_insert", "or_insert_default"} => hmOut.cleared = <<>>
    /\ hmOut.op \in {"insert", "insert_default"} =>
           IF hmOut.key \in DOMAIN hmOut.pre.map
           THEN /\ hmOut.cleared = <<hmOut.pre.map[hmOut.key]>>
                /\ hmOut.init_called
                /\ hashmap.map[hmOut.key] =
                       Initialize(hmOut.init,
                                  el_clear(hmOut.pre.map[hmOut.key]))
                /\ hashmap.dead = hmOut.pre.dead
           ELSE hmOut.cleared = <<>>

\* an insert on a key whose value held an item, with an init that pushes
\* one: the value holds the one item init has pushed after the clear()
C37_Witness ==
    /\ hmOut.op = "insert"
    /\ hmOut.key \in DOMAIN hmOut.pre.map
    /\ hmOut.pre.map[hmOut.key].len > 0
    /\ hmOut.init = "push"
    /\ hmOut.cleared # <<>>
    /\ hashmap.map[hmOut.key].len = 1
\* what Clear leaves of an inner vector e: no live child, and in its pool
\* the children it had pooled, followed by the children that were live,
\* cleared
Parked(e) == RecyclingVec(<<>>, e.dead \o Cleared(e.vec))

C39_KeysSortedValuesParallel ==
    LET ks == sm_keys(stringmap)
        vs == sm_values(stringmap)
    IN  /\ \A k \in 1..(Len(ks) - 1) : str_cmp(ks[k], ks[k + 1]) = "Less"
        /\ Len(ks) = Len(vs)
        /\ sm_len(stringmap) = Cardinality(DOMAIN smLive)
        /\ {ks[k] : k \in 1..Len(ks)} = DOMAIN smLive
        /\ \A k \in 1..Len(ks) :
               ks[k] \in DOMAIN smLive /\ k <= Len(vs) => vs[k] = smLive[ks[k]]
        /\ Len(sm_items(stringmap)) = Cardinality(DOMAIN smLive)
        /\ \A k \in 1..Len(sm_items(stringmap)) :
               LET item == sm_items(stringmap)[k]
               IN  /\ item[1] \in DOMAIN smLive
                   /\ item[2] = smLive[item[1]]
                   /\ \A j \in 1..(k - 1) :
                          str_cmp(sm_items(stringmap)[j][1], item[1]) = "Less"

\* an insert of a key smaller than the two keys of the map, with a value
\* different from theirs: it is first in keys, and its value first in
\* values
C39_Witness ==
    /\ smOut.op = "insert"
    /\ smOut.key \notin DOMAIN smOut.preLive
    /\ sm_len(smOut.pre) = 2
    /\ sm_keys(stringmap)[1] = smOut.key
    /\ sm_values(stringmap)[1] = smLive[smOut.key]
    /\ sm_values(stringmap)[1] # sm_values(stringmap)[2]
    /\ sm_keys(stringmap)[2] = sm_keys(smOut.pre)[1]
====
